---- MODULE Spec2Model ----
(***************************************************************************)
(* Request-security layer of the clawsuite server: the in-memory session   *)
(* store, password verification, CSRF double-submit validation and the     *)
(* request gate of src/src/server/auth-middleware.ts, and the sliding      *)
(* window rate limiter of src/unnamed/part_002.                            *)
(*                                                                         *)
(* Time.  Date.now() is modelled by the variable now, counted in clock     *)
(* ticks of 60 000 ms: TLC's integers are 32 bits wide and 30 days in      *)
(* milliseconds (2 592 000 000) does not fit.  Every comparison of the     *)
(* code on times (now > expiresAt, now - t < windowMs) is unchanged by     *)
(* the unit as long as all times are multiples of it.                      *)
(*                                                                         *)
(* Strings.  A string is a sequence of characters (<<>> is ''), so that    *)
(* length and content are both visible to the comparisons.                 *)
(***************************************************************************)
EXTENDS Integers, Sequences, FiniteSets, TLC

VARIABLES
    validTokens,  \* the Map<string, number> of the session store, in insertion order
    now,          \* Date.now(), in ticks
    lastCall,     \* the call that made the last step, with what it returned (FALSE when void)
    storedAt,     \* history: per token, the time of its last storeSessionToken (-1: never)
    dead,         \* history: tokens revoked or seen expired since they were last stored
    everDead,     \* history: tokens ever revoked or seen expired
    fillLog,      \* history: tokens stored so far while only distinct tokens were stored
    env,          \* process.env
    request,      \* the request being answered by requireAuth / validateCsrf, if any
    response,     \* what the function called on it returned
    pwCall,       \* the last verifyPassword call: its candidate and what it returned
    store,        \* the Map<string, {timestamps}> of the rate limiter
    nextSweep,    \* the time at which the cleanup timer is next due
    rlCall,       \* the last rateLimit call (with what it returned) or sweep (with the keys it deleted)
    grants,       \* history: per key, the times of the calls that returned true
    paramsOf,     \* history: per key, the (maxRequests, windowMs) it was always called with, if so
    calls,        \* history: the number of rateLimit calls so far
    helperCall,   \* the last call of a stateless helper, with its inputs and what it returned
    issued,       \* history: the session token and CSRF token the last login issued
    shadow        \* history: the rate limiter's store had no sweep ever run, and what the
                  \* last rateLimit call returns on it

sessionVars == <<validTokens, lastCall, storedAt, dead, everDead, fillLog>>
authVars == <<request, response>>
rateVars == <<store, nextSweep, rlCall, grants, paramsOf, calls>>
flowVars == <<helperCall, issued, shadow>>
vars == <<sessionVars, now, env, authVars, pwCall, rateVars, flowVars>>

----------------------------------------------------------------------------
(* Bounds of the model *)

\* capacity of the session store (1000 in the code, scaled down)
MAX_SESSIONS == 2
\* number of clock advances in one behaviour
MaxTicks == 2

\* 30 days in ticks (30 * 24 * 60 * 60 * 1000 ms)
SESSION_TTL_MS == 30 * 24 * 60 * ((60 * 1000) \div 60000)

\* undefined and null where the code expects a string: one-element sequences
\* whose element is no character, so that they differ from every string
UNDEFINED == <<"undefined">>
NULL == <<"null">>

\* session token values: '', 'a', 'b'
Tokens == {<<>>, <<"a">>, <<"b">>}

\* JavaScript truthiness of a string-or-undefined / string-or-null value
TruthyString(s) == s # UNDEFINED /\ s # NULL /\ s # <<>>
\* JavaScript truthiness of a number
TruthyNumber(n) == n # 0

----------------------------------------------------------------------------
(* Map<string, number>: a sequence of entries, ordered by first insertion *)

MapHas(m, k) == \E i \in 1..Len(m) : m[i].token = k
\* get, for a key that is present (an absent key gives undefined: see MapHas)
MapGet(m, k) == m[CHOOSE i \in 1..Len(m) : m[i].token = k].expiresAt
MapDelete(m, k) == SelectSeq(m, LAMBDA e : e.token # k)
\* set keeps the position of a key that is present and appends a new key
MapSet(m, k, v) ==
    IF MapHas(m, k)
    THEN [i \in 1..Len(m) |-> IF m[i].token = k THEN [token |-> k, expiresAt |-> v] ELSE m[i]]
    ELSE Append(m, [token |-> k, expiresAt |-> v])
MapFirstKey(m) == IF Len(m) > 0 THEN m[1].token ELSE UNDEFINED

----------------------------------------------------------------------------
(* Session store *)

\* storeSessionToken that puts a new entry in front of the others
storeSessionTokenWith_NewestFirst(maxSessions, tokens, t, token) ==
    LET oldestKey == MapFirstKey(tokens)
        evicted == IF Len(tokens) >= maxSessions /\ TruthyString(oldestKey)
                   THEN MapDelete(tokens, oldestKey) ELSE tokens
    IN IF MapHas(evicted, token) THEN MapSet(evicted, token, t + SESSION_TTL_MS)
       ELSE <<[token |-> token, expiresAt |-> t + SESSION_TTL_MS]>> \o evicted

\* storeSessionToken in a module whose MAX_SESSIONS is maxSessions: the store
\* after the call
storeSessionTokenWith(maxSessions, tokens, t, token) ==
    LET oldestKey == MapFirstKey(tokens)
        evicted == IF Len(tokens) >= maxSessions /\ TruthyString(oldestKey)
                   THEN MapDelete(tokens, oldestKey)
                   ELSE tokens
    IN MapSet(evicted, token, t + SESSION_TTL_MS)

\* storeSessionToken: the store after the call
storeSessionToken(tokens, t, token) ==
    storeSessionTokenWith(MAX_SESSIONS, tokens, t, token)

\* isValidSessionToken with the expiry test written >= : the token dies one tick early
isValidSessionToken_ExpiresEarly(tokens, t, token) ==
    LET expiresAt == MapGet(tokens, token)
    IN IF ~MapHas(tokens, token) \/ ~TruthyNumber(expiresAt) THEN [ret |-> FALSE, tokens |-> tokens]
       ELSE IF t >= expiresAt THEN [ret |-> FALSE, tokens |-> MapDelete(tokens, token)]
       ELSE [ret |-> TRUE, tokens |-> tokens]

\* isValidSessionToken that renews the expiry of a token it finds valid
isValidSessionToken_Renews(tokens, t, token) ==
    LET expiresAt == MapGet(tokens, token)
    IN IF ~MapHas(tokens, token) \/ ~TruthyNumber(expiresAt) THEN [ret |-> FALSE, tokens |-> tokens]
       ELSE IF t > expiresAt THEN [ret |-> FALSE, tokens |-> MapDelete(tokens, token)]
       ELSE [ret |-> TRUE, tokens |-> MapSet(tokens, token, t + SESSION_TTL_MS)]

\* isValidSessionToken: what it returns and the store after the call
isValidSessionToken(tokens, t, token) ==
    LET expiresAt == MapGet(tokens, token)
    IN IF ~MapHas(tokens, token) \/ ~TruthyNumber(expiresAt) THEN [ret |-> FALSE, tokens |-> tokens]
       ELSE IF t > expiresAt THEN [ret |-> FALSE, tokens |-> MapDelete(tokens, token)]
       ELSE [ret |-> TRUE, tokens |-> tokens]

\* revokeSessionToken that deletes the oldest entry instead of the named one
revokeSessionToken_DeletesOldest(tokens, token) == MapDelete(tokens, MapFirstKey(tokens))

\* revokeSessionToken that clears the whole store
revokeSessionToken_ClearsAll(tokens, token) == <<>>

\* revokeSessionToken: the store after the call
revokeSessionToken(tokens, token) == MapDelete(tokens, token)

----------------------------------------------------------------------------
(* Configuration (process.env) and requests *)

\* isPasswordProtectionEnabled, for e = process.env
isPasswordProtectionEnabled(e) ==
    \/ (TruthyString(e.CLAWSUITE_PASSWORD) /\ Len(e.CLAWSUITE_PASSWORD) > 0)
    \/ (TruthyString(e.CLAWSUITE_PASSWORD_HASH) /\ Len(e.CLAWSUITE_PASSWORD_HASH) > 0)

CSRF_COOKIE_NAME == "clawsuite-csrf"
AUTH_COOKIE_NAME == "clawsuite-auth"

\* A Cookie header is absent (request.headers.get gives null) or present; a
\* present header is the sequence of its ';'-separated, trimmed parts, each part
\* name=value.  The header '' is the present header with no parts.
NoCookieHeader == [present |-> FALSE, parts |-> <<>>]
CookieHeader(parts) == [present |-> TRUE, parts |-> parts]
Cookie(name, value) == [name |-> name, value |-> value]

\* the value of the first part that starts with name=, or null
FirstCookie(cookieHeader, name) ==
    IF ~cookieHeader.present \/ cookieHeader.parts = <<>> THEN NULL
    ELSE LET hits == {i \in 1..Len(cookieHeader.parts) : cookieHeader.parts[i].name = name}
         IN IF hits = {} THEN NULL
            ELSE cookieHeader.parts[CHOOSE i \in hits : \A j \in hits : i <= j].value

getSessionTokenFromCookie(cookieHeader) == FirstCookie(cookieHeader, AUTH_COOKIE_NAME)
getCsrfTokenFromCookie(cookieHeader) == FirstCookie(cookieHeader, CSRF_COOKIE_NAME)

\* A string is a sequence of characters, a character a one-character TLA+
\* string. The characters of the model are the ones listed here with their
\* code points; the operators on characters are defined on no other character.

\* U+0009..U+000D: tab, line feed, vertical tab, form feed, carriage return
AsciiControl == <<"\t", "\n", "", "\f", "\r">>
\* U+0020..U+005F and U+0061..U+007E (a TLA+ string cannot hold U+0060)
AsciiPrintable ==
 <<
    " ", "!", "\"", "#", "$", "%", "&", "'", "(", ")", "*", "+", ",", "-", ".", "/",
    "0", "1", "2", "3", "4", "5", "6", "7", "8", "9", ":", ";", "<", "=", ">", "?",
    "@", "A", "B", "C", "D", "E", "F", "G", "H", "I", "J", "K", "L", "M", "N", "O",
    "P", "Q", "R", "S", "T", "U", "V", "W", "X", "Y", "Z", "[", "\\", "]", "^", "_"
 >>
AsciiLower ==
 <<
    "a", "b", "c", "d", "e", "f", "g", "h", "i", "j", "k", "l", "m", "n", "o",
    "p", "q", "r", "s", "t", "u", "v", "w", "x", "y", "z", "{", "|", "}", "~"
 >>
\* U+00A0..U+00FE
Latin1 ==
 <<
    " ", "¡", "¢", "£", "¤", "¥", "¦", "§", "¨", "©", "ª", "«", "¬", "­", "®", "¯",
    "°", "±", "²", "³", "´", "µ", "¶", "·", "¸", "¹", "º", "»", "¼", "½", "¾", "¿",
    "À", "Á", "Â", "Ã", "Ä", "Å", "Æ", "Ç", "È", "É", "Ê", "Ë", "Ì", "Í", "Î", "Ï",
    "Ð", "Ñ", "Ò", "Ó", "Ô", "Õ", "Ö", "×", "Ø", "Ù", "Ú", "Û", "Ü", "Ý", "Þ", "ß",
    "à", "á", "â", "ã", "ä", "å", "æ", "ç", "è", "é", "ê", "ë", "ì", "í", "î", "ï",
    "ð", "ñ", "ò", "ó", "ô", "õ", "ö", "÷", "ø", "ù", "ú", "û", "ü", "ý", "þ"
 >>
\* U+039C (capital mu), U+1680 (ogham space), U+20AC (euro), U+FEFF (byte order mark)
CAPITAL_MU == "Μ"
OGHAM_SPACE == " "
EURO == "€"
BOM == "﻿"

\* runs of consecutive code points
CodeBlocks ==
    << [first |-> 9, chars |-> AsciiControl],
       [first |-> 32, chars |-> AsciiPrintable],
       [first |-> 97, chars |-> AsciiLower],
       [first |-> 160, chars |-> Latin1],
       [first |-> 924, chars |-> <<CAPITAL_MU>>],
       [first |-> 5760, chars |-> <<OGHAM_SPACE>>],
       [first |-> 8364, chars |-> <<EURO>>],
       [first |-> 65279, chars |-> <<BOM>>] >>

Characters ==
    UNION {{CodeBlocks[k].chars[i] : i \in 1..Len(CodeBlocks[k].chars)} : k \in 1..Len(CodeBlocks)}

\* the code point of every character of the model
CodePointOf ==
    [c \in Characters |->
        LET k == CHOOSE b \in 1..Len(CodeBlocks) :
                     \E i \in 1..Len(CodeBlocks[b].chars) : CodeBlocks[b].chars[i] = c
            i == CHOOSE j \in 1..Len(CodeBlocks[k].chars) : CodeBlocks[k].chars[j] = c
        IN CodeBlocks[k].first + i - 1]

\* String.prototype.codePointAt(0) of a character
CodePoint(c) == CodePointOf[c]
\* String.fromCodePoint
FromCodePoint(cp) == CHOOSE c \in Characters : CodePointOf[c] = cp

\* WhiteSpace and LineTerminator of ECMAScript, as far as they are characters
\* of the model (U+2000..U+200A, U+2028, U+2029, U+202F, U+205F and U+3000 are
\* not)
NO_BREAK_SPACE == " "
WhiteSpace ==
    {AsciiControl[i] : i \in 1..Len(AsciiControl)} \cup {" ", NO_BREAK_SPACE, OGHAM_SPACE, BOM}

\* the upper-case mapping of one character: a..z and the lower-case letters of
\* Latin-1 move down by 32, sharp s becomes SS and the micro sign capital mu;
\* no other character of the model has an upper-case form
UpperOf(c, cp) ==
    IF (97 <= cp /\ cp <= 122) \/ (224 <= cp /\ cp <= 254 /\ cp # 247)
    THEN <<FromCodePoint(cp - 32)>>
    ELSE IF cp = 223 THEN <<"S", "S">>
    ELSE IF cp = 181 THEN <<CAPITAL_MU>>
    ELSE <<c>>
UpperChar(c) == UpperOf(c, CodePoint(c))

\* String.prototype.toUpperCase
RECURSIVE ToUpperCase(_)
ToUpperCase(m) == IF m = <<>> THEN <<>> ELSE UpperChar(Head(m)) \o ToUpperCase(Tail(m))

\* the bytes in UTF-8 of a code point up to U+10FFFF; a surrogate on its own
\* (U+D800..U+DFFF) is encoded as U+FFFD
Utf8(cp) ==
    IF cp < 128 THEN <<cp>>
    ELSE IF cp < 2048 THEN <<192 + (cp \div 64), 128 + (cp % 64)>>
    ELSE IF 55296 <= cp /\ cp <= 57343 THEN <<239, 191, 189>>
    ELSE IF cp < 65536
         THEN <<224 + (cp \div 4096), 128 + ((cp \div 64) % 64), 128 + (cp % 64)>>
    ELSE <<240 + (cp \div 262144), 128 + ((cp \div 4096) % 64),
           128 + ((cp \div 64) % 64), 128 + (cp % 64)>>
\* the bytes of one character in UTF-8
CharCode(c) == Utf8(CodePoint(c))

\* Buffer.from(s, 'utf8')
RECURSIVE BufferFromUtf8(_)
BufferFromUtf8(s) == IF s = <<>> THEN <<>> ELSE CharCode(Head(s)) \o BufferFromUtf8(Tail(s))

\* the method names the code compares with
GET == <<"G", "E", "T">>
HEAD == <<"H", "E", "A", "D">>
OPTIONS == <<"O", "P", "T", "I", "O", "N", "S">>
POST == <<"P", "O", "S", "T">>

\* crypto.timingSafeEqual: throws a RangeError when the byte lengths differ
timingSafeEqual(a, b) ==
    IF Len(a) # Len(b) THEN [threw |-> TRUE, ret |-> FALSE]
    ELSE [threw |-> FALSE, ret |-> \A i \in 1..Len(a) : a[i] = b[i]]

\* validateCsrf that is content with a CSRF cookie and does not read the header
validateCsrf_CookieOnly(e, req) ==
    LET method == ToUpperCase(req.method)
        cookieToken == getCsrfTokenFromCookie(req.cookie)
    IN IF method = GET \/ method = HEAD \/ method = OPTIONS THEN TRUE
       ELSE IF ~isPasswordProtectionEnabled(e) THEN TRUE
       ELSE TruthyString(cookieToken)

\* validateCsrf that compares the method as it was sent (no toUpperCase)
validateCsrf_CaseSensitive(e, req) ==
    LET method == req.method
        cookieToken == getCsrfTokenFromCookie(req.cookie)
        headerToken == req.csrfHeader
        cmp == timingSafeEqual(BufferFromUtf8(cookieToken), BufferFromUtf8(headerToken))
    IN IF method = GET \/ method = HEAD \/ method = OPTIONS THEN TRUE
       ELSE IF ~isPasswordProtectionEnabled(e) THEN TRUE
       ELSE IF ~TruthyString(cookieToken) \/ ~TruthyString(headerToken) THEN FALSE
       ELSE IF cmp.threw THEN FALSE
       ELSE cmp.ret

\* validateCsrf that compares the lengths of the two tokens and not their bytes
validateCsrf_LengthOnly(e, req) ==
    LET method == ToUpperCase(req.method)
        cookieToken == getCsrfTokenFromCookie(req.cookie)
        headerToken == req.csrfHeader
    IN IF method = GET \/ method = HEAD \/ method = OPTIONS THEN TRUE
       ELSE IF ~isPasswordProtectionEnabled(e) THEN TRUE
       ELSE IF ~TruthyString(cookieToken) \/ ~TruthyString(headerToken) THEN FALSE
       ELSE Len(BufferFromUtf8(cookieToken)) = Len(BufferFromUtf8(headerToken))

\* validateCsrf
validateCsrf(e, req) ==
    LET method == ToUpperCase(req.method)
        cookieToken == getCsrfTokenFromCookie(req.cookie)
        headerToken == req.csrfHeader
        cookieBuf == BufferFromUtf8(cookieToken)
        headerBuf == BufferFromUtf8(headerToken)
        cmp == timingSafeEqual(cookieBuf, headerBuf)
    IN IF method = GET \/ method = HEAD \/ method = OPTIONS THEN TRUE
       ELSE IF ~isPasswordProtectionEnabled(e) THEN TRUE
       ELSE IF ~TruthyString(cookieToken) \/ ~TruthyString(headerToken) THEN FALSE
       ELSE IF Len(cookieBuf) # Len(headerBuf) THEN FALSE
       ELSE IF cmp.threw THEN FALSE
       ELSE cmp.ret

\* isAuthenticated: what it returns and the session store after the call
isAuthenticated(e, tokens, t, req) ==
    LET token == getSessionTokenFromCookie(req.cookie)
    IN IF ~isPasswordProtectionEnabled(e) THEN [ret |-> TRUE, tokens |-> tokens]
       ELSE IF ~TruthyString(token) THEN [ret |-> FALSE, tokens |-> tokens]
       ELSE isValidSessionToken(tokens, t, token)

\* requireAuth that accepts a CSRF token only when it is the session token
requireAuth_CsrfIsSessionToken(e, tokens, t, req) ==
    LET auth == isAuthenticated(e, tokens, t, req)
        bound == \/ ~isPasswordProtectionEnabled(e)
                 \/ ToUpperCase(req.method) \in {GET, HEAD, OPTIONS}
                 \/ getCsrfTokenFromCookie(req.cookie) = getSessionTokenFromCookie(req.cookie)
    IN IF ~auth.ret THEN [status |-> 401, tokens |-> auth.tokens]
       ELSE IF ~validateCsrf(e, req) \/ ~bound THEN [status |-> 403, tokens |-> auth.tokens]
       ELSE [status |-> 0, tokens |-> auth.tokens]

\* requireAuth that validates CSRF before it looks at the session
requireAuth_CsrfFirst(e, tokens, t, req) ==
    LET auth == isAuthenticated(e, tokens, t, req)
    IN IF ~validateCsrf(e, req) THEN [status |-> 403, tokens |-> tokens]
       ELSE IF ~auth.ret THEN [status |-> 401, tokens |-> auth.tokens]
       ELSE [status |-> 0, tokens |-> auth.tokens]

\* requireAuth: the status of the response (0 for null) and the store after the call
requireAuth(e, tokens, t, req) ==
    LET auth == isAuthenticated(e, tokens, t, req)
    IN IF ~auth.ret THEN [status |-> 401, tokens |-> auth.tokens]
       ELSE IF ~validateCsrf(e, req) THEN [status |-> 403, tokens |-> auth.tokens]
       ELSE [status |-> 0, tokens |-> auth.tokens]

----------------------------------------------------------------------------
(* Actions of the session store *)

Env(password, hash) ==
    [CLAWSUITE_PASSWORD |-> password, CLAWSUITE_PASSWORD_HASH |-> hash,
     NODE_ENV |-> UNDEFINED, TRUSTED_PROXY_IP |-> UNDEFINED]

NoRequest == [method |-> <<>>, cookie |-> NoCookieHeader, csrfHeader |-> NULL]
NoResponse == [fn |-> "", status |-> 0, ret |-> FALSE]
AuthIdle == request = NoRequest /\ response = NoResponse
NoPwCall == [password |-> NULL, threw |-> FALSE, ret |-> FALSE]
NoHelperCall == [fn |-> "", xRealIp |-> NULL, xForwardedFor |-> NULL, ret |-> NULL]
NoLogin == [token |-> NULL, csrf |-> NULL]
NoShadow == [store |-> << >>, ret |-> FALSE]
FlowIdle == helperCall = NoHelperCall /\ issued = NoLogin /\ shadow = NoShadow

\* the rate limiter's timer fires every 300 000 ms; its sweep keeps the
\* timestamps younger than 120 000 ms (both in ticks of 60 000 ms)
SWEEP_INTERVAL_MS == 300000 \div 60000
SWEEP_CUTOFF_MS == 120000 \div 60000

Keys == {"k1", "k2"}
\* a key not called yet, and a key called with differing parameters
NoParams == <<0, 0, "none">>
MixedParams == <<0, 0, "mixed">>
NoRlCall ==
    [op |-> "init", key |-> "", maxRequests |-> 0, windowMs |-> 0, ret |-> FALSE, deleted |-> {}]
RateInit ==
    /\ store = << >>
    /\ nextSweep = SWEEP_INTERVAL_MS
    /\ rlCall = NoRlCall
    /\ grants = [k \in Keys |-> <<>>]
    /\ paramsOf = [k \in Keys |-> NoParams]
    /\ calls = 0

SessionInit ==
    /\ validTokens = <<>>
    /\ lastCall = [op |-> "init", token |-> NULL, ret |-> FALSE, present |-> FALSE]
    /\ storedAt = [t \in Tokens |-> -1]
    /\ dead = {}
    /\ everDead = {}
    /\ fillLog = <<>>

Init ==
    /\ SessionInit
    /\ now = 0
    /\ env = Env(<<"a">>, UNDEFINED)
    /\ AuthIdle
    /\ FlowIdle
    /\ pwCall = NoPwCall
    /\ RateInit

Broken == <<NULL>>

StoreSessionToken(token) ==
    /\ validTokens' = storeSessionToken(validTokens, now, token)
    /\ lastCall' = [op |-> "store", token |-> token, ret |-> FALSE,
                    present |-> MapHas(validTokens, token)]
    /\ storedAt' = [storedAt EXCEPT ![token] = now]
    /\ dead' = dead \ {token}
    /\ fillLog' = IF fillLog # Broken /\ \A i \in 1..Len(fillLog) : fillLog[i] # token
                  THEN Append(fillLog, token)
                  ELSE Broken
    /\ UNCHANGED <<now, everDead, env, flowVars, authVars, pwCall, rateVars>>

IsValidSessionToken(token) ==
    LET r == isValidSessionToken(validTokens, now, token)
        expired == MapHas(validTokens, token) /\ ~r.ret
    IN /\ validTokens' = r.tokens
       /\ lastCall' = [op |-> "isValid", token |-> token, ret |-> r.ret,
                       present |-> MapHas(validTokens, token)]
       /\ dead' = IF expired THEN dead \cup {token} ELSE dead
       /\ everDead' = IF expired THEN everDead \cup {token} ELSE everDead
       /\ fillLog' = IF r.tokens = validTokens THEN fillLog ELSE Broken
       /\ UNCHANGED <<now, storedAt, env, flowVars, authVars, pwCall, rateVars>>

RevokeSessionToken(token) ==
    /\ validTokens' = revokeSessionToken(validTokens, token)
    /\ lastCall' = [op |-> "revoke", token |-> token, ret |-> FALSE,
                    present |-> MapHas(validTokens, token)]
    /\ dead' = dead \cup {token}
    /\ everDead' = everDead \cup {token}
    /\ fillLog' = Broken
    /\ UNCHANGED <<now, storedAt, env, flowVars, authVars, pwCall, rateVars>>

\* the number of clock advances that led to time t
TicksOf(t) == (t \div SESSION_TTL_MS) + (t % SESSION_TTL_MS)

\* time passes: by one tick, or by the whole TTL
Tick(d) ==
    /\ TicksOf(now) < MaxTicks
    /\ now' = now + d
    /\ lastCall' = [op |-> "tick", token |-> NULL, ret |-> FALSE, present |-> FALSE]
    /\ UNCHANGED <<validTokens, storedAt, dead, everDead, fillLog, env, flowVars, authVars, pwCall, rateVars>>

Next ==
    \/ \E token \in Tokens : StoreSessionToken(token)
    \/ \E token \in Tokens : IsValidSessionToken(token)
    \/ \E token \in Tokens : RevokeSessionToken(token)
    \/ \E d \in {1, SESSION_TTL_MS} : Tick(d)

Spec == Init /\ [][Next]_vars

\* The session store under fair scheduling.  auth-middleware.ts registers no
\* timer on validTokens, so the only thing that happens by itself is that
\* time passes; the calls are made by request handlers and may never come.
SpecSessionFair ==
    Init /\ [][Next]_vars /\ WF_vars(\E d \in {1, SESSION_TTL_MS} : Tick(d))

\* The session store with room for one more entry, so that a store of
\* MAX_SESSIONS entries is not yet full, and with one more token value.  The
\* steps are those of Spec; its history variables are left alone.
LARGER_MAX_SESSIONS == MAX_SESSIONS + 1
MoreTokens == Tokens \cup {<<"c">>}

StoreInLargerStore(token) ==
    /\ validTokens' = storeSessionTokenWith(LARGER_MAX_SESSIONS, validTokens, now, token)
    /\ lastCall' = [op |-> "store", token |-> token, ret |-> FALSE,
                    present |-> MapHas(validTokens, token)]
    /\ UNCHANGED <<now, storedAt, dead, everDead, fillLog, env, flowVars, authVars, pwCall, rateVars>>

ValidateInLargerStore(token) ==
    LET r == isValidSessionToken(validTokens, now, token)
    IN /\ validTokens' = r.tokens
       /\ lastCall' = [op |-> "isValid", token |-> token, ret |-> r.ret,
                       present |-> MapHas(validTokens, token)]
       /\ UNCHANGED <<now, storedAt, dead, everDead, fillLog, env, flowVars, authVars, pwCall, rateVars>>

RevokeInLargerStore(token) ==
    /\ validTokens' = revokeSessionToken(validTokens, token)
    /\ lastCall' = [op |-> "revoke", token |-> token, ret |-> FALSE,
                    present |-> MapHas(validTokens, token)]
    /\ UNCHANGED <<now, storedAt, dead, everDead, fillLog, env, flowVars, authVars, pwCall, rateVars>>

NextLargerStore ==
    \/ \E token \in MoreTokens : StoreInLargerStore(token)
    \/ \E token \in MoreTokens : ValidateInLargerStore(token)
    \/ \E token \in MoreTokens : RevokeInLargerStore(token)
    \/ \E d \in {1, SESSION_TTL_MS} : Tick(d)

SpecLargerStore == Init /\ [][NextLargerStore]_vars

----------------------------------------------------------------------------
(* The request gate: requireAuth and validateCsrf on requests, while sessions
   are stored, revoked and expire.  A request is answered (request, response
   set) and then the handler returns (both cleared). *)

\* the configurations: nothing set, both set but empty, a plaintext secret, a hash
AuthEnvs ==
    {Env(UNDEFINED, UNDEFINED), Env(<<>>, <<>>), Env(<<"a">>, UNDEFINED), Env(UNDEFINED, <<"a">>)}

\* the session token the login path stores ('' and 'b' are never issued)
LoginTokens == {<<"a">>}

Methods ==
    { GET, <<"g", "e", "t">>, HEAD, <<"o", "p", "t", "i", "o", "n", "s">>, POST,
      <<"p", "a", "t", "c", "h">> }
CookieParts ==
    {Cookie(AUTH_COOKIE_NAME, v) : v \in Tokens}
    \cup {Cookie(CSRF_COOKIE_NAME, v) : v \in {<<>>, <<"a">>, <<"b">>, <<"a", "b">>}}
    \cup {Cookie("other", <<"a">>)}
CookieHeaders ==
    {NoCookieHeader, CookieHeader(<<>>)}
    \cup {CookieHeader(<<c>>) : c \in CookieParts}
    \cup {CookieHeader(<<c, d>>) : c \in CookieParts, d \in CookieParts}
Requests ==
    [method : Methods, cookie : CookieHeaders, csrfHeader : {NULL, <<>>, <<"a">>}]

InitAuth ==
    /\ SessionInit
    /\ now = 0
    /\ env \in AuthEnvs
    /\ AuthIdle
    /\ FlowIdle
    /\ pwCall = NoPwCall
    /\ RateInit

AuthStore(token) ==
    /\ request = NoRequest
    /\ validTokens' = storeSessionToken(validTokens, now, token)
    /\ UNCHANGED <<lastCall, storedAt, dead, everDead, fillLog, now, env, flowVars, authVars, pwCall, rateVars>>

AuthRevoke(token) ==
    /\ request = NoRequest
    /\ validTokens' = revokeSessionToken(validTokens, token)
    /\ UNCHANGED <<lastCall, storedAt, dead, everDead, fillLog, now, env, flowVars, authVars, pwCall, rateVars>>

\* time passes by the TTL
AuthTick ==
    /\ request = NoRequest
    /\ TicksOf(now) < MaxTicks
    /\ now' = now + SESSION_TTL_MS
    /\ UNCHANGED <<sessionVars, env, flowVars, authVars, pwCall, rateVars>>

RequireAuth(req) ==
    LET r == requireAuth(env, validTokens, now, req)
    IN /\ request = NoRequest
       /\ request' = req
       /\ response' = [fn |-> "requireAuth", status |-> r.status, ret |-> FALSE]
       /\ validTokens' = r.tokens
       /\ UNCHANGED <<lastCall, storedAt, dead, everDead, fillLog, now, env, flowVars, pwCall, rateVars>>

ValidateCsrf(req) ==
    /\ request = NoRequest
    /\ request' = req
    /\ response' = [fn |-> "validateCsrf", status |-> 0, ret |-> validateCsrf(env, req)]
    /\ UNCHANGED <<sessionVars, now, env, flowVars, pwCall, rateVars>>

HandlerReturns ==
    /\ request # NoRequest
    /\ request' = NoRequest
    /\ response' = NoResponse
    /\ UNCHANGED <<sessionVars, now, env, flowVars, pwCall, rateVars>>

NextAuth ==
    \/ \E token \in LoginTokens : AuthStore(token)
    \/ \E token \in LoginTokens : AuthRevoke(token)
    \/ AuthTick
    \/ \E req \in Requests : RequireAuth(req)
    \/ \E req \in Requests : ValidateCsrf(req)
    \/ HandlerReturns

SpecAuth == InitAuth /\ [][NextAuth]_vars

----------------------------------------------------------------------------
(* Password verification *)

\* A byte that a key or a hex string consists of is written as its two hex
\* digits in lower case.

\* String.prototype.includes(':')
IncludesColon(s) == \E i \in 1..Len(s) : s[i] = ":"

\* String.prototype.split(':'): the pieces between the delimiters
RECURSIVE SplitColon(_)
SplitColon(s) ==
    IF ~IncludesColon(s) THEN <<s>>
    ELSE LET i == CHOOSE k \in 1..Len(s) : s[k] = ":" /\ \A j \in 1..(k - 1) : s[j] # ":"
         IN <<SubSeq(s, 1, i - 1)>> \o SplitColon(SubSeq(s, i + 1, Len(s)))

Digits == <<"0", "1", "2", "3", "4", "5", "6", "7", "8", "9">>
IsDigit(c) == \E i \in 1..Len(Digits) : Digits[i] = c
DigitValue(c) == (CHOOSE i \in 1..Len(Digits) : Digits[i] = c) - 1

MaxInt32 == 2147483647

\* the number acc followed by the digit d
AddDigit(acc, d) ==
    IF ~acc.over /\ (acc.val < MaxInt32 \div 10
                      \/ (acc.val = MaxInt32 \div 10 /\ d <= MaxInt32 % 10))
    THEN [val |-> 10 * acc.val + d, over |-> FALSE]
    ELSE [val |-> MaxInt32, over |-> TRUE]

\* the number written by a string of decimal digits: its value, or over when
\* the value exceeds MaxInt32
RECURSIVE Magnitude(_, _)
Magnitude(digits, acc) ==
    IF digits = <<>> THEN acc
    ELSE Magnitude(Tail(digits), AddDigit(acc, DigitValue(Head(digits))))

\* the string without its leading white space
RECURSIVE DropWhiteSpace(_)
DropWhiteSpace(s) ==
    IF s # <<>> /\ Head(s) \in WhiteSpace THEN DropWhiteSpace(Tail(s)) ELSE s

\* the longest run of decimal digits the string starts with
RECURSIVE LeadingDigits(_)
LeadingDigits(s) ==
    IF s # <<>> /\ IsDigit(Head(s)) THEN <<Head(s)>> \o LeadingDigits(Tail(s)) ELSE <<>>

\* the number of a sign and the magnitude of its digits
SignedNumber(negative, magnitude) ==
    [nan |-> FALSE,
     val |-> IF negative THEN 0 - magnitude.val ELSE magnitude.val,
     over |-> magnitude.over]

\* the number of a sign and a run of digits, NaN when the run is empty
SignedDigits(negative, digits) ==
    IF digits = <<>> THEN [nan |-> TRUE, val |-> 0, over |-> FALSE]
    ELSE SignedNumber(negative, Magnitude(digits, [val |-> 0, over |-> FALSE]))

\* the number at the start of a string that has no leading white space
ParseSigned(s) ==
    IF s # <<>> /\ Head(s) \in {"+", "-"}
    THEN SignedDigits(Head(s) = "-", LeadingDigits(Tail(s)))
    ELSE SignedDigits(FALSE, LeadingDigits(s))

\* parseInt(s, 10): leading white space is skipped, then an optional sign, then
\* the longest run of decimal digits is read; NaN when that run is empty
parseInt(s) == ParseSigned(DropWhiteSpace(s))

\* crypto.pbkdf2Sync derives the key with PBKDF2 (RFC 8018) and HMAC-SHA256
\* (RFC 2104, FIPS 180-4).  A 32-bit word is the pair <<high, low>> of its
\* 16-bit halves.  Where a value is used many times it is computed first:
\* CHOOSE r \in {F(v) : v \in {e}} : TRUE is F(e) with e computed once, before F.

\* exclusive or of two natural numbers
RECURSIVE XorBits(_, _)
XorBits(a, b) ==
    IF a = 0 THEN b
    ELSE IF b = 0 THEN a
    ELSE ((a + b) % 2) + 2 * XorBits(a \div 2, b \div 2)

\* the sequence <<element[i], ..., element[i + k - 1]>>, every element computed
RECURSIVE Build(_, _, _)
Build(element, i, k) ==
    IF k > 1
    THEN Build(element, i, k \div 2) \o Build(element, i + (k \div 2), k - (k \div 2))
    ELSE IF k = 1 THEN <<element[i]>> ELSE <<>>

\* the exclusive or of two bytes, as a table
XorByte == [a \in 0..255 |-> [b \in 0..255 |-> XorBits(a, b)]]
XorOfBytes(a, b) == XorByte[a][b]

Xor16(a, b) == 256 * XorOfBytes(a \div 256, b \div 256) + XorOfBytes(a % 256, b % 256)
\* a + b = (a xor b) + 2 * (a and b)
And16(a, b) == (a + b - Xor16(a, b)) \div 2
Xor(v, w) == <<Xor16(v[1], w[1]), Xor16(v[2], w[2])>>
Xor3(u, v, w) == Xor(Xor(u, v), w)
And(v, w) == <<And16(v[1], w[1]), And16(v[2], w[2])>>
Not(v) == <<65535 - v[1], 65535 - v[2]>>

Pow2 == [n \in 0..16 |-> 2 ^ n]
\* rotation of a word to the right by n bits, n < 16
RotrLow(v, n) ==
    <<(v[1] \div Pow2[n]) + (v[2] % Pow2[n]) * Pow2[16 - n],
      (v[2] \div Pow2[n]) + (v[1] % Pow2[n]) * Pow2[16 - n]>>
\* rotation of a word to the right by n bits, n < 32
Rotr(v, n) == IF n < 16 THEN RotrLow(v, n) ELSE RotrLow(<<v[2], v[1]>>, n - 16)
\* shift of a word to the right by n bits, n < 16
Shr(v, n) == <<v[1] \div Pow2[n], (v[2] \div Pow2[n]) + (v[1] % Pow2[n]) * Pow2[16 - n]>>

\* the word of two sums of halves: addition modulo 2^32
Carry(high, low) == <<(high + (low \div 65536)) % 65536, low % 65536>>
Add2(a, b) == Carry(a[1] + b[1], a[2] + b[2])
Add4(a, b, c, d) == Carry(a[1] + b[1] + c[1] + d[1], a[2] + b[2] + c[2] + d[2])
Add5(a, b, c, d, e) ==
    Carry(a[1] + b[1] + c[1] + d[1] + e[1], a[2] + b[2] + c[2] + d[2] + e[2])

\* the functions of SHA-256
BigSigma0(v) == Xor3(Rotr(v, 2), Rotr(v, 13), Rotr(v, 22))
BigSigma1(v) == Xor3(Rotr(v, 6), Rotr(v, 11), Rotr(v, 25))
SmallSigma0(v) == Xor3(Rotr(v, 7), Rotr(v, 18), Shr(v, 3))
SmallSigma1(v) == Xor3(Rotr(v, 17), Rotr(v, 19), Shr(v, 10))
Ch(e, f, g) == Xor(And(e, f), And(Not(e), g))
Maj(a, b, c) == Xor3(And(a, b), And(a, c), And(b, c))

RoundConstants ==
    << <<\H428a, \H2f98>>, <<\H7137, \H4491>>, <<\Hb5c0, \Hfbcf>>, <<\He9b5, \Hdba5>>,
       <<\H3956, \Hc25b>>, <<\H59f1, \H11f1>>, <<\H923f, \H82a4>>, <<\Hab1c, \H5ed5>>,
       <<\Hd807, \Haa98>>, <<\H1283, \H5b01>>, <<\H2431, \H85be>>, <<\H550c, \H7dc3>>,
       <<\H72be, \H5d74>>, <<\H80de, \Hb1fe>>, <<\H9bdc, \H06a7>>, <<\Hc19b, \Hf174>>,
       <<\He49b, \H69c1>>, <<\Hefbe, \H4786>>, <<\H0fc1, \H9dc6>>, <<\H240c, \Ha1cc>>,
       <<\H2de9, \H2c6f>>, <<\H4a74, \H84aa>>, <<\H5cb0, \Ha9dc>>, <<\H76f9, \H88da>>,
       <<\H983e, \H5152>>, <<\Ha831, \Hc66d>>, <<\Hb003, \H27c8>>, <<\Hbf59, \H7fc7>>,
       <<\Hc6e0, \H0bf3>>, <<\Hd5a7, \H9147>>, <<\H06ca, \H6351>>, <<\H1429, \H2967>>,
       <<\H27b7, \H0a85>>, <<\H2e1b, \H2138>>, <<\H4d2c, \H6dfc>>, <<\H5338, \H0d13>>,
       <<\H650a, \H7354>>, <<\H766a, \H0abb>>, <<\H81c2, \Hc92e>>, <<\H9272, \H2c85>>,
       <<\Ha2bf, \He8a1>>, <<\Ha81a, \H664b>>, <<\Hc24b, \H8b70>>, <<\Hc76c, \H51a3>>,
       <<\Hd192, \He819>>, <<\Hd699, \H0624>>, <<\Hf40e, \H3585>>, <<\H106a, \Ha070>>,
       <<\H19a4, \Hc116>>, <<\H1e37, \H6c08>>, <<\H2748, \H774c>>, <<\H34b0, \Hbcb5>>,
       <<\H391c, \H0cb3>>, <<\H4ed8, \Haa4a>>, <<\H5b9c, \Hca4f>>, <<\H682e, \H6ff3>>,
       <<\H748f, \H82ee>>, <<\H78a5, \H636f>>, <<\H84c8, \H7814>>, <<\H8cc7, \H0208>>,
       <<\H90be, \Hfffa>>, <<\Ha450, \H6ceb>>, <<\Hbef9, \Ha3f7>>, <<\Hc671, \H78f2>> >>
InitialHash ==
    << <<\H6a09, \He667>>, <<\Hbb67, \Hae85>>, <<\H3c6e, \Hf372>>, <<\Ha54f, \Hf53a>>,
       <<\H510e, \H527f>>, <<\H9b05, \H688c>>, <<\H1f83, \Hd9ab>>, <<\H5be0, \Hcd19>> >>

\* word t of the message schedule, from the words before it
NextWord(w, t) ==
    Add4(SmallSigma1(w[t - 2]), w[t - 7], SmallSigma0(w[t - 15]), w[t - 16])
\* the schedule w with its next k words
RECURSIVE Extend(_, _)
Extend(w, k) ==
    IF k > 1
    THEN CHOOSE after \in {Extend(half, k - (k \div 2)) : half \in {Extend(w, k \div 2)}} : TRUE
    ELSE IF k = 1 THEN Append(w, NextWord(w, Len(w) + 1)) ELSE w

\* the working variables a..h after one round with the temporary words t1, t2
Shift(s, t1, t2) ==
    <<Add2(t1, t2), s[1], s[2], s[3], Add2(s[4], t1), s[5], s[6], s[7]>>
\* one round, with the round constant k and the schedule word w
RoundOf(s, k, w) ==
    CHOOSE after \in
        {Shift(s, Add5(s[8], f[1], f[2], k, w), Add2(f[3], f[4])) : f \in
            {<<BigSigma1(s[5]), Ch(s[5], s[6], s[7]),
               BigSigma0(s[1]), Maj(s[1], s[2], s[3])>>}} : TRUE
\* the working variables after the rounds t + 1 .. t + k, from those after round t
RECURSIVE Rounds(_, _, _, _)
Rounds(s, w, t, k) ==
    IF k > 1
    THEN CHOOSE after \in {Rounds(half, w, t + (k \div 2), k - (k \div 2)) :
                             half \in {Rounds(s, w, t, k \div 2)}} : TRUE
    ELSE IF k = 1 THEN RoundOf(s, RoundConstants[t + 1], w[t + 1]) ELSE s
AddWords(h, s) ==
    <<Add2(h[1], s[1]), Add2(h[2], s[2]), Add2(h[3], s[3]), Add2(h[4], s[4]),
      Add2(h[5], s[5]), Add2(h[6], s[6]), Add2(h[7], s[7]), Add2(h[8], s[8])>>
\* the hash value after a block of 16 words
Compress(h, block) ==
    CHOOSE after \in {AddWords(h, s) : s \in {Rounds(h, w, 0, 64) : w \in
                        {Extend(words, 48) : words \in {block}}}} : TRUE

\* 64 bytes as 16 words, big-endian
BlockWords(bytes) ==
    Build([i \in 1..16 |-> <<256 * bytes[4 * i - 3] + bytes[4 * i - 2],
                             256 * bytes[4 * i - 1] + bytes[4 * i]>>], 1, 16)
\* the hash value after the blocks i + 1 .. i + k of the bytes
RECURSIVE CompressAll(_, _, _, _)
CompressAll(h, bytes, i, k) ==
    IF k > 1
    THEN CHOOSE after \in {CompressAll(half, bytes, i + (k \div 2), k - (k \div 2)) :
                             half \in {CompressAll(h, bytes, i, k \div 2)}} : TRUE
    ELSE IF k = 1 THEN Compress(h, BlockWords(SubSeq(bytes, 64 * i + 1, 64 * i + 64)))
    ELSE h
\* the length in bits of a message of n bytes, as 8 bytes (n < 2^28)
LengthBytes(n) ==
    <<0, 0, 0, 0, (n \div 2097152) % 256, (n \div 8192) % 256, (n \div 32) % 256, (n * 8) % 256>>
\* the last bytes of a message of n bytes, padded to whole blocks
Zeros(k) == Build([i \in 1..k |-> 0], 1, k)
Padded(bytes, n) == bytes \o <<128>> \o Zeros((119 - (n % 64)) % 64) \o LengthBytes(n)
WordBytes(v) == <<v[1] \div 256, v[1] % 256, v[2] \div 256, v[2] % 256>>
HashBytes(h) ==
    WordBytes(h[1]) \o WordBytes(h[2]) \o WordBytes(h[3]) \o WordBytes(h[4])
    \o WordBytes(h[5]) \o WordBytes(h[6]) \o WordBytes(h[7]) \o WordBytes(h[8])
\* the digest of a message of n bytes whose last bytes are `bytes`, the whole
\* blocks before them having given the hash value h
Digest(h, bytes, n) ==
    CHOOSE digest \in {HashBytes(after) : after \in
                         {CompressAll(h, b, 0, Len(b) \div 64) : b \in {Padded(bytes, n)}}} : TRUE
Sha256(bytes) == Digest(InitialHash, bytes, Len(bytes))

\* HMAC: a key longer than a block is hashed first
BLOCK_SIZE == 64
BlockKey(key) == IF Len(key) > BLOCK_SIZE THEN Sha256(key) ELSE key
\* the block of a key, filled with zeros and xored with a pad byte, as words
PadKey(key, pad) ==
    CHOOSE words \in {BlockWords(block) : block \in
        {Build([i \in 1..BLOCK_SIZE |->
                   XorOfBytes(IF i <= Len(key) THEN key[i] ELSE 0, pad)],
               1, BLOCK_SIZE)}} : TRUE
\* the hash values after the block of the key xor ipad and after the block of
\* the key xor opad
HmacKey(key) ==
    CHOOSE states \in {[inner |-> Compress(InitialHash, PadKey(k, 54)),
                        outer |-> Compress(InitialHash, PadKey(k, 92))] :
                       k \in {BlockKey(key)}} : TRUE
\* HMAC-SHA256 of a message, under a key given by its two hash values
Hmac(k, message) ==
    CHOOSE mac \in {Digest(k.outer, inner, BLOCK_SIZE + 32) : inner \in
                      {Digest(k.inner, m, BLOCK_SIZE + Len(m)) : m \in {message}}} : TRUE

XorBytes(a, b) == Build([i \in 1..Len(a) |-> XorOfBytes(a[i], b[i])], 1, Len(a))
\* the loop of PBKDF2, where u is U_n and t is U_1 xor ... xor U_n: one more
\* iteration
Advance(key, loop) ==
    CHOOSE after \in {[u |-> u, t |-> XorBytes(loop.t, u)] : u \in {Hmac(key, loop.u)}} : TRUE
\* the loop after k more iterations
RECURSIVE Iterate(_, _, _)
Iterate(key, loop, k) ==
    IF k > 1
    THEN CHOOSE after \in {Iterate(key, half, k - (k \div 2)) :
                             half \in {Iterate(key, loop, k \div 2)}} : TRUE
    ELSE IF k = 1 THEN Advance(key, loop) ELSE loop
\* PBKDF2-HMAC-SHA256 with a key of 32 bytes, the length of one digest: the key
\* is the first block, U_1 xor ... xor U_count with U_1 = HMAC(salt || 0001)
Pbkdf2(passwordBuf, saltBuf, count) ==
    CHOOSE t \in {Iterate(k[1], [u |-> k[2], t |-> k[2]], count - 1).t : k \in
                    {<<key, Hmac(key, saltBuf \o <<0, 0, 0, 1>>)>> : key \in
                      {HmacKey(passwordBuf)}}} : TRUE

HexDigits == Digits \o <<"a", "b", "c", "d", "e", "f">>
UpperHexDigits == Digits \o <<"A", "B", "C", "D", "E", "F">>
\* one byte as its two hex digits in lower case
HexPair(byte) == <<HexDigits[(byte \div 16) + 1], HexDigits[(byte % 16) + 1]>>

KEY_LEN == 32

\* the KEY_LEN bytes of the key derived from the bytes of a password and of a
\* salt with count iterations, each byte written as its two hex digits
DeriveKey(passwordBuf, saltBuf, count) ==
    CHOOSE key \in {Build([i \in 1..KEY_LEN |-> HexPair(bytes[i])], 1, KEY_LEN) :
                      bytes \in {Pbkdf2(passwordBuf, saltBuf, count)}} : TRUE

\* the candidates that are submitted, and the salt and the iteration counts of
\* the descriptors that are configured
Candidates == {<<>>, <<"a">>, <<"b">>, <<"a", "b">>, <<"b", "a">>}
DescriptorSalt == <<"s">>
DescriptorCounts == {1, 2}
\* their keys, derived once
KnownInputs ==
    {<<BufferFromUtf8(password), BufferFromUtf8(DescriptorSalt), count>> :
        password \in Candidates, count \in DescriptorCounts}
KnownKeys == {<<input, DeriveKey(input[1], input[2], input[3])>> : input \in KnownInputs}

\* the derived key: looked up when it was derived before
DerivedKey(passwordBuf, saltBuf, count) ==
    IF <<passwordBuf, saltBuf, count>> \in KnownInputs
    THEN (CHOOSE known \in KnownKeys : known[1] = <<passwordBuf, saltBuf, count>>)[2]
    ELSE DeriveKey(passwordBuf, saltBuf, count)

\* pbkdf2Sync(password, salt, iterations, 32, 'sha256'): throws unless iterations
\* is an integer in 1..MaxInt32
pbkdf2Sync(password, salt, iterations) ==
    IF iterations.nan \/ iterations.over \/ iterations.val < 1
    THEN [threw |-> TRUE, key |-> <<>>]
    ELSE [threw |-> FALSE,
          key |-> DerivedKey(BufferFromUtf8(password), BufferFromUtf8(salt), iterations.val)]

\* Buffer.prototype.toString('hex'): the two digits of every byte
ToStringHex(buf) ==
    [j \in 1..(2 * Len(buf)) |-> buf[(j + 1) \div 2][IF j % 2 = 1 THEN 1 ELSE 2]]

\* pbkdf2Sync(password, salt, count, 32, 'sha256').toString('hex')
KeyHex(password, salt, count) ==
    ToStringHex(DerivedKey(BufferFromUtf8(password), BufferFromUtf8(salt), count))

\* the same digits in upper case
UpperKeyHex(password, salt, count) == ToUpperCase(KeyHex(password, salt, count))

IsHexDigit(c) ==
    \E i \in 1..Len(HexDigits) : HexDigits[i] = c \/ UpperHexDigits[i] = c
\* a hex digit in lower case
LowerHexDigit(c) ==
    HexDigits[CHOOSE i \in 1..Len(HexDigits) : HexDigits[i] = c \/ UpperHexDigits[i] = c]

\* the bytes of the leading pairs of hex digits: decoding stops at the first
\* pair that is not two hex digits, and a last digit without a partner is
\* dropped
RECURSIVE HexDecode(_)
HexDecode(s) ==
    IF Len(s) >= 2 /\ IsHexDigit(s[1]) /\ IsHexDigit(s[2])
    THEN <<<<LowerHexDigit(s[1]), LowerHexDigit(s[2])>>>> \o HexDecode(SubSeq(s, 3, Len(s)))
    ELSE <<>>

\* Buffer.from(hash, 'hex'): throws a TypeError on undefined
BufferFromHex(hash) ==
    IF hash = UNDEFINED THEN [threw |-> TRUE, bytes |-> <<>>]
    ELSE [threw |-> FALSE, bytes |-> HexDecode(hash)]

\* timingSafeEqual(Buffer.from(derived, 'hex'), Buffer.from(hash, 'hex')), where
\* derived is the derived key as a hex string, unless deriving or decoding threw
CompareKeys(derived, stored) ==
    IF derived.threw \/ stored.threw THEN [threw |-> TRUE, ret |-> FALSE]
    ELSE timingSafeEqual(HexDecode(ToStringHex(derived.key)), stored.bytes)

\* the first three pieces of the descriptor, with the candidate
TryParts(parts, password) ==
    CompareKeys(pbkdf2Sync(password, parts[1], parseInt(parts[2])),
                BufferFromHex(IF Len(parts) >= 3 THEN parts[3] ELSE UNDEFINED))

\* the try block of verifyPassword: whether it threw, and what it returned if not
HashAttempt(hashedConfig, password) == TryParts(SplitColon(hashedConfig), password)

\* a plaintext comparison that accepts every candidate as long as the secret
PlaintextAttempt_LengthOnly(configured, password) ==
    IF ~TruthyString(configured) \/ Len(configured) = 0 THEN FALSE
    ELSE Len(BufferFromUtf8(password)) = Len(BufferFromUtf8(configured))

\* a plaintext comparison that takes a missing secret for the empty secret
PlaintextAttempt_UnsetIsEmpty(configured, password) ==
    LET secret == IF TruthyString(configured) THEN configured ELSE <<>>
        cmp == timingSafeEqual(BufferFromUtf8(password), BufferFromUtf8(secret))
    IN IF cmp.threw THEN FALSE ELSE cmp.ret

\* the comparison of two buffers: false when the lengths differ or
\* timingSafeEqual throws
CompareBuffers(passwordBuf, configuredBuf) ==
    IF Len(passwordBuf) # Len(configuredBuf) THEN FALSE
    ELSE IF timingSafeEqual(passwordBuf, configuredBuf).threw THEN FALSE
    ELSE timingSafeEqual(passwordBuf, configuredBuf).ret

\* the plaintext comparison of verifyPassword
PlaintextAttempt(configured, password) ==
    IF ~TruthyString(configured) \/ Len(configured) = 0 THEN FALSE
    ELSE CompareBuffers(BufferFromUtf8(password), BufferFromUtf8(configured))

\* the try block was not entered, or was left by an exception
NotReturned == [threw |-> TRUE, ret |-> FALSE]

\* what verifyPassword does after the hash path: its result when the try block
\* returned, the plaintext comparison otherwise
AfterHashPath(attempt, configured, password) ==
    IF ~attempt.threw THEN [threw |-> FALSE, ret |-> attempt.ret]
    ELSE [threw |-> FALSE, ret |-> PlaintextAttempt(configured, password)]

\* verifyPassword: whether it raised, and what it returned
verifyPassword(e, password) ==
    AfterHashPath(IF TruthyString(e.CLAWSUITE_PASSWORD_HASH)
                     /\ IncludesColon(e.CLAWSUITE_PASSWORD_HASH)
                  THEN HashAttempt(e.CLAWSUITE_PASSWORD_HASH, password)
                  ELSE NotReturned,
                  e.CLAWSUITE_PASSWORD, password)

\* the descriptors, with the keys of the salt 's': key[password, count] is the
\* key of a password as hex digits
DescriptorsWith(key) ==
    { UNDEFINED, <<>>, <<"x">>,
      <<"s", ":", "1", ":">> \o key[<<"a">>, 1],
      <<"s", ":", "1", ":">> \o key[<<"b">>, 1],
      <<"s", ":", "1">>,
      <<"s", ":", "x", ":">> \o key[<<"a">>, 1],
      <<"s", ":", "0", ":">> \o key[<<"a">>, 1],
      <<"s", ":", "1", ":", "a", "b", "c", "d">>,
      <<"s", ":", "1", "x", ":">> \o key[<<"a">>, 1],
      <<"s", ":", "2", ":">> \o key[<<"a">>, 1],
      <<"s", ":", "2", ":">> \o key[<<"a">>, 2],
      <<"s", ":", "1", ":">> \o ToUpperCase(key[<<"a">>, 1]),
      <<":", ":">> }
DescriptorKeys ==
    [password \in Candidates, count \in DescriptorCounts |->
        KeyHex(password, DescriptorSalt, count)]
HashDescriptors == DescriptorsWith(DescriptorKeys)
PlaintextSecrets == {UNDEFINED, <<>>, <<"a">>, <<"a", "b">>}

InitPassword ==
    /\ SessionInit
    /\ now = 0
    /\ env \in {Env(p, h) : p \in PlaintextSecrets, h \in HashDescriptors}
    /\ AuthIdle
    /\ FlowIdle
    /\ pwCall = NoPwCall
    /\ RateInit

PwCallOf(password, r) == [password |-> password, threw |-> r.threw, ret |-> r.ret]

VerifyPassword(password) ==
    /\ pwCall' = PwCallOf(password, verifyPassword(env, password))
    /\ UNCHANGED <<sessionVars, now, env, flowVars, authVars, rateVars>>

NextPassword == \E password \in Candidates : VerifyPassword(password)

SpecPassword == InitPassword /\ [][NextPassword]_vars

----------------------------------------------------------------------------
(* Claims about verifyPassword, checked under SpecPassword *)

\* C7: when a hash descriptor containing ':' is configured and the hash path
\* fails (parsing, key derivation or comparison throws), verifyPassword returns
\* false for every candidate, whether or not a plaintext secret is configured.
C7_HashFailureRejects ==
    (/\ pwCall # NoPwCall
     /\ TruthyString(env.CLAWSUITE_PASSWORD_HASH)
     /\ IncludesColon(env.CLAWSUITE_PASSWORD_HASH)
     /\ HashAttempt(env.CLAWSUITE_PASSWORD_HASH, pwCall.password).threw)
    => pwCall.ret = FALSE

----------------------------------------------------------------------------
(* Rate limiter *)

\* number of rateLimit calls in one behaviour, and the last time of the clock
MaxRateCalls == 3
MaxRateTime == 6

\* the values of maxRequests and of windowMs (in ticks) that callers pass
MaxRequestsValues == {1, 2}
WindowValues == {1, 2, 3}

\* Array.prototype.filter((t) => at - t < age)
Younger(timestamps, at, age) == SelectSeq(timestamps, LAMBDA t : at - t < age)

\* rateLimit that puts the new timestamp in front of the others (unshift for push)
rateLimit_NewestFirst(st, at, key, maxRequests, windowMs) ==
    LET entry == IF key \in DOMAIN st THEN st[key] ELSE <<>>
        kept == SelectSeq(entry, LAMBDA t : at - t < windowMs)
        with(ts) == [k \in DOMAIN st \cup {key} |-> IF k = key THEN ts ELSE st[k]]
    IN IF Len(kept) >= maxRequests THEN [ret |-> FALSE, store |-> with(kept)]
       ELSE [ret |-> TRUE, store |-> with(<<at>> \o kept)]

\* rateLimit that records the call also when it rejects it
rateLimit_RecordsRejected(st, at, key, maxRequests, windowMs) ==
    LET entry == IF key \in DOMAIN st THEN st[key] ELSE <<>>
        kept == SelectSeq(entry, LAMBDA t : at - t < windowMs)
        with(ts) == [k \in DOMAIN st \cup {key} |-> IF k = key THEN ts ELSE st[k]]
    IN [ret |-> Len(kept) < maxRequests, store |-> with(Append(kept, at))]

\* rateLimit that prunes the timestamps of every key with the caller's window
rateLimit_PrunesAllKeys(st, at, key, maxRequests, windowMs) ==
    LET entry == IF key \in DOMAIN st THEN st[key] ELSE <<>>
        kept == SelectSeq(entry, LAMBDA t : at - t < windowMs)
        with(ts) == [k \in DOMAIN st \cup {key} |->
                        IF k = key THEN ts
                        ELSE SelectSeq(st[k], LAMBDA t : at - t < windowMs)]
    IN IF Len(kept) >= maxRequests THEN [ret |-> FALSE, store |-> with(kept)]
       ELSE [ret |-> TRUE, store |-> with(Append(kept, at))]

\* rateLimit that keeps a timestamp exactly windowMs old (<= for <)
rateLimit_KeepsBoundary(st, at, key, maxRequests, windowMs) ==
    LET entry == IF key \in DOMAIN st THEN st[key] ELSE <<>>
        kept == SelectSeq(entry, LAMBDA t : at - t <= windowMs)
        with(ts) == [k \in DOMAIN st \cup {key} |-> IF k = key THEN ts ELSE st[k]]
    IN IF Len(kept) >= maxRequests THEN [ret |-> FALSE, store |-> with(kept)]
       ELSE [ret |-> TRUE, store |-> with(Append(kept, at))]

\* rateLimit: what it returns and the store after the call
rateLimit(st, at, key, maxRequests, windowMs) ==
    LET entry == IF key \in DOMAIN st THEN st[key] ELSE <<>>
        kept == Younger(entry, at, windowMs)
        with(ts) == [k \in DOMAIN st \cup {key} |-> IF k = key THEN ts ELSE st[k]]
    IN IF Len(kept) >= maxRequests THEN [ret |-> FALSE, store |-> with(kept)]
       ELSE [ret |-> TRUE, store |-> with(Append(kept, at))]

\* a sweep with a cutoff of 60 000 ms
sweep_ShortCutoff(st, at) ==
    LET cutoff == 60000 \div 60000
        alive == {k \in DOMAIN st : Len(Younger(st[k], at, cutoff)) # 0}
    IN [k \in alive |-> Younger(st[k], at, cutoff)]

\* a sweep that prunes the timestamps and forgets to delete the emptied keys
sweep_KeepsEmptyKeys(st, at) ==
    [k \in DOMAIN st |-> Younger(st[k], at, SWEEP_CUTOFF_MS)]

\* the setInterval callback: the store after one sweep
sweep(st, at) ==
    LET alive == {k \in DOMAIN st : Len(Younger(st[k], at, SWEEP_CUTOFF_MS)) # 0}
    IN [k \in alive |-> Younger(st[k], at, SWEEP_CUTOFF_MS)]

InitRate ==
    /\ SessionInit
    /\ now = 0
    /\ env = Env(<<"a">>, UNDEFINED)
    /\ AuthIdle
    /\ FlowIdle
    /\ pwCall = NoPwCall
    /\ RateInit

RateLimit(key, maxRequests, windowMs) ==
    LET r == rateLimit(store, now, key, maxRequests, windowMs)
    IN /\ calls < MaxRateCalls
       /\ store' = r.store
       /\ rlCall' = [op |-> "rateLimit", key |-> key, maxRequests |-> maxRequests,
                     windowMs |-> windowMs, ret |-> r.ret, deleted |-> {}]
       /\ grants' = IF r.ret THEN [grants EXCEPT ![key] = Append(@, now)] ELSE grants
       /\ paramsOf' = [paramsOf EXCEPT ![key] =
                          IF @ \in {NoParams, <<maxRequests, windowMs, "fixed">>}
                          THEN <<maxRequests, windowMs, "fixed">>
                          ELSE MixedParams]
       /\ calls' = calls + 1
       /\ UNCHANGED <<sessionVars, now, env, flowVars, authVars, pwCall, nextSweep>>

\* the timer fires when it is due, or later, and is armed again from then
Sweep ==
    /\ now >= nextSweep
    /\ store' = sweep(store, now)
    /\ nextSweep' = now + SWEEP_INTERVAL_MS
    /\ rlCall' = [NoRlCall EXCEPT !.op = "sweep",
                                  !.deleted = DOMAIN store \ DOMAIN sweep(store, now)]
    /\ UNCHANGED <<sessionVars, now, env, flowVars, authVars, pwCall, grants, paramsOf, calls>>

RateTick ==
    /\ now < MaxRateTime
    /\ now' = now + 1
    /\ rlCall' = [NoRlCall EXCEPT !.op = "tick"]
    /\ UNCHANGED <<sessionVars, env, flowVars, authVars, pwCall, store, nextSweep, grants, paramsOf, calls>>

NextRate ==
    \/ \E key \in Keys, maxRequests \in MaxRequestsValues, windowMs \in WindowValues :
          RateLimit(key, maxRequests, windowMs)
    \/ Sweep
    \/ RateTick

SpecRate == InitRate /\ [][NextRate]_vars

\* The rate limiter under fair scheduling, without the history variables.
\* The callers stop calling after MaxRateTime; time goes on until the timer
\* has certainly fired once more than SWEEP_CUTOFF_MS after the last call,
\* however late each firing was.
LastSweepTime == MaxRateTime + SWEEP_CUTOFF_MS + SWEEP_INTERVAL_MS - 1

FairRateLimit(key, maxRequests, windowMs) ==
    LET r == rateLimit(store, now, key, maxRequests, windowMs)
    IN /\ now <= MaxRateTime
       /\ store' = r.store
       /\ rlCall' = [op |-> "rateLimit", key |-> key, maxRequests |-> maxRequests,
                     windowMs |-> windowMs, ret |-> r.ret, deleted |-> {}]
       /\ UNCHANGED <<sessionVars, now, env, flowVars, authVars, pwCall, nextSweep,
                      grants, paramsOf, calls>>

LateTick ==
    /\ now >= MaxRateTime
    /\ now < LastSweepTime
    /\ now' = now + 1
    /\ rlCall' = [NoRlCall EXCEPT !.op = "tick"]
    /\ UNCHANGED <<sessionVars, env, flowVars, authVars, pwCall, store, nextSweep, grants, paramsOf, calls>>

NextRateFair ==
    \/ \E key \in Keys, maxRequests \in MaxRequestsValues, windowMs \in WindowValues :
          FairRateLimit(key, maxRequests, windowMs)
    \/ Sweep
    \/ RateTick
    \/ LateTick

\* The rate limiter used with windows of at most the sweep's cutoff, next to
\* a copy of its store that no sweep ever touches.
QuietWindows == {w \in WindowValues : w <= SWEEP_CUTOFF_MS}

QuietRateLimit(key, maxRequests, windowMs) ==
    LET r == rateLimit(store, now, key, maxRequests, windowMs)
        unswept == rateLimit(shadow.store, now, key, maxRequests, windowMs)
    IN /\ store' = r.store
       /\ rlCall' = [op |-> "rateLimit", key |-> key, maxRequests |-> maxRequests,
                     windowMs |-> windowMs, ret |-> r.ret, deleted |-> {}]
       /\ shadow' = [store |-> unswept.store, ret |-> unswept.ret]
       /\ UNCHANGED <<sessionVars, now, env, helperCall, issued, authVars, pwCall, nextSweep,
                      grants, paramsOf, calls>>

NextRateQuiet ==
    \/ \E key \in Keys, maxRequests \in MaxRequestsValues, windowMs \in QuietWindows :
          QuietRateLimit(key, maxRequests, windowMs)
    \/ Sweep
    \/ RateTick

SpecRateQuiet == InitRate /\ [][NextRateQuiet]_vars

\* The rate limiter when every key is always checked with one maxRequests,
\* zero and negative limits included; paramsOf holds the key's limit.
SameMaxValues == {-1, 0, 1, 2}

SameMaxRateLimit(key, maxRequests, windowMs) ==
    LET r == rateLimit(store, now, key, maxRequests, windowMs)
    IN /\ paramsOf[key] = NoParams \/ paramsOf[key] = <<maxRequests, 0, "fixed">>
       /\ store' = r.store
       /\ rlCall' = [op |-> "rateLimit", key |-> key, maxRequests |-> maxRequests,
                     windowMs |-> windowMs, ret |-> r.ret, deleted |-> {}]
       /\ paramsOf' = [paramsOf EXCEPT ![key] = <<maxRequests, 0, "fixed">>]
       /\ UNCHANGED <<sessionVars, now, env, flowVars, authVars, pwCall, nextSweep,
                      grants, calls>>

NextRateSameMax ==
    \/ \E key \in Keys, maxRequests \in SameMaxValues, windowMs \in WindowValues :
          SameMaxRateLimit(key, maxRequests, windowMs)
    \/ Sweep
    \/ RateTick

SpecRateSameMax == InitRate /\ [][NextRateSameMax]_vars

\* the same steps, with no assumption on their scheduling
SpecRateSteps == InitRate /\ [][NextRateFair]_vars

\* setInterval keeps the timer armed and the event loop runs a due callback;
\* time passes
SpecRateFair ==
    InitRate /\ [][NextRateFair]_vars /\ WF_vars(Sweep) /\ WF_vars(RateTick \/ LateTick)

----------------------------------------------------------------------------
(* Claims about the rate limiter, checked under SpecRate *)

\* the number of calls granted to key k in the window of length w that ends
\* with its i-th granted call
GrantsInWindow(k, i, w) ==
    Cardinality({j \in 1..i : grants[k][i] - grants[k][j] < w})

\* C4: for every key always called with one maxRequests = m >= 1 and one
\* windowMs = w, with cleanup sweeps run in between, no time interval of
\* length w holds more than m calls of that key that returned true.
C4_AtMostMaxPerWindow ==
    \A k \in Keys :
        (paramsOf[k][3] = "fixed" /\ paramsOf[k][1] >= 1) =>
            \A i \in 1..Len(grants[k]) : GrantsInWindow(k, i, paramsOf[k][2]) <= paramsOf[k][1]

----------------------------------------------------------------------------
(* Claims about the session store, checked under Spec *)

Expired(t) == storedAt[t] >= 0 /\ now > storedAt[t] + SESSION_TTL_MS

\* C1: in every reachable state the session store holds at most MAX_SESSIONS
\* entries, whatever strings (the empty string included) were stored.
C1_SizeAtMostCapacity == Len(validTokens) <= MAX_SESSIONS

\* C2: after MAX_SESSIONS + 1 distinct tokens were stored into the empty store,
\* with no expiry and no revocation, exactly the earliest-inserted token is
\* invalid: isValidSessionToken is false for it and true for the others.
C2_FillEvictsEarliest ==
    (/\ fillLog # Broken
     /\ Len(fillLog) = MAX_SESSIONS + 1
     /\ \A i \in 1..Len(fillLog) : ~Expired(fillLog[i]))
    => /\ ~isValidSessionToken(validTokens, now, fillLog[1]).ret
       /\ \A i \in 2..Len(fillLog) : isValidSessionToken(validTokens, now, fillLog[i]).ret

\* C3: isValidSessionToken(t) on a token that is in the store returns true at
\* every time up to and including (time of its storeSessionToken) + TTL, and
\* false at every later time, and then the entry is gone from the store.
C3_ValidUntilTtl ==
    lastCall.op = "isValid" =>
        LET t == lastCall.token
        IN /\ (lastCall.present /\ now <= storedAt[t] + SESSION_TTL_MS) => lastCall.ret = TRUE
           /\ Expired(t) => (lastCall.ret = FALSE /\ ~MapHas(validTokens, t))

\* a store at capacity was asked about a token past its expiry and dropped it
C3_Witness ==
    /\ lastCall.op = "isValid"
    /\ lastCall.present
    /\ Expired(lastCall.token)
    /\ lastCall.ret = FALSE
    /\ Len(validTokens) = MAX_SESSIONS - 1

\* C8 as stated: a token value that was ever revoked or seen expired is never
\* reported valid again.
C8_DeadForever ==
    (lastCall.op = "isValid" /\ lastCall.token \in everDead) => lastCall.ret = FALSE

\* C8, amended: a token value that was revoked or seen expired is not reported
\* valid again unless storeSessionToken was called with that value since.
C8_DeadUntilStoredAgain ==
    (lastCall.op = "isValid" /\ lastCall.token \in dead) => lastCall.ret = FALSE

\* a token that had been stored and then revoked or seen expired is asked about
C8_Witness ==
    /\ lastCall.op = "isValid"
    /\ lastCall.token \in dead
    /\ storedAt[lastCall.token] >= 0
    /\ lastCall.ret = FALSE

\* the entries of m without the entry of token k, in the same order
Without(m, k) == SelectSeq(m, LAMBDA e : e.token # k)

\* requests that carry the session token t (safe and unsafe method, with and
\* without a matching CSRF pair), and configurations with protection on
RequestsCarrying(t) ==
    { [method |-> m, cookie |-> CookieHeader(c), csrfHeader |-> h] :
        m \in {GET, POST},
        c \in { <<Cookie(AUTH_COOKIE_NAME, t)>>,
                <<Cookie(AUTH_COOKIE_NAME, t), Cookie(CSRF_COOKIE_NAME, <<"a">>)>> },
        h \in {<<"a">>} }
ProtectedEnvs == {Env(<<"a">>, UNDEFINED), Env(UNDEFINED, <<"a">>)}

\* C9: revokeSessionToken(t) removes t and nothing else: afterwards
\* isValidSessionToken(t) is false and requireAuth answers 401 to a request
\* carrying t; the other entries keep their expiry and their order; revoking an
\* absent token changes nothing and a second revocation changes nothing more.
C9_RevokeRemovesOnlyThat ==
    [][lastCall'.op = "revoke" =>
        LET t == lastCall'.token
        IN /\ validTokens' = Without(validTokens, t)
           /\ ~MapHas(validTokens, t) => validTokens' = validTokens
           /\ revokeSessionToken(validTokens', t) = validTokens'
           /\ ~isValidSessionToken(validTokens', now', t).ret
           /\ \A e \in ProtectedEnvs : \A r \in RequestsCarrying(t) :
                 requireAuth(e, validTokens', now', r).status = 401
    ]_vars

\* a token was revoked out of a store that keeps another entry
C9_Witness ==
    /\ lastCall.op = "revoke"
    /\ lastCall.present
    /\ Len(validTokens) >= 1

\* C10 as stated: no step changes the expiry of a token that is in the store.
C10_ExpiryNeverChanges ==
    [][\A t \in Tokens :
          (MapHas(validTokens, t) /\ MapHas(validTokens', t))
          => MapGet(validTokens', t) = MapGet(validTokens, t)]_vars

\* C10, amended: only storeSessionToken of the same token value changes the
\* expiry of a token that is in the store (it sets it to now + TTL).
C10_ExpiryChangesOnlyOnStore ==
    [][\A t \in Tokens :
          (MapHas(validTokens, t) /\ MapHas(validTokens', t))
          => \/ MapGet(validTokens', t) = MapGet(validTokens, t)
             \/ (/\ lastCall'.op = "store"
                 /\ lastCall'.token = t
                 /\ MapGet(validTokens', t) = now + SESSION_TTL_MS)]_vars

\* a token that was in the store was stored again at a later time
C10_Witness ==
    /\ lastCall.op = "store"
    /\ lastCall.present
    /\ MapHas(validTokens, lastCall.token)
    /\ \E other \in Tokens :
          /\ other # lastCall.token
          /\ MapHas(validTokens, other)
          /\ MapGet(validTokens, other) < MapGet(validTokens, lastCall.token)

----------------------------------------------------------------------------
(* Claims about the request gate, checked under SpecAuth *)

SafeMethod(m) == ToUpperCase(m) \in {GET, HEAD, OPTIONS}

\* the request is authenticated against the session store `tokens` at time t
Authenticated(e, tokens, t, req) ==
    \/ ~isPasswordProtectionEnabled(e)
    \/ LET token == getSessionTokenFromCookie(req.cookie)
       IN /\ token # NULL
          /\ token # <<>>
          /\ isValidSessionToken(tokens, t, token).ret

\* C5: requireAuth answers 401 whenever the request is not authenticated,
\* whatever its CSRF cookie and header; otherwise 403 whenever validateCsrf
\* fails; otherwise null.  Authenticated: protection is off, or the
\* clawsuite-auth cookie carries a non-empty token that isValidSessionToken accepts.
C5_RequireAuthOrder ==
    [][(request = NoRequest /\ request' # NoRequest /\ response'.fn = "requireAuth") =>
        response'.status =
            IF ~Authenticated(env, validTokens, now, request') THEN 401
            ELSE IF ~validateCsrf(env, request') THEN 403
            ELSE 0
    ]_vars

\* an unauthenticated request whose CSRF pair is also bad was answered 401
C5_Witness ==
    /\ response.fn = "requireAuth"
    /\ response.status = 401
    /\ isPasswordProtectionEnabled(env)
    /\ getSessionTokenFromCookie(request.cookie) = <<"a">>
    /\ ~validateCsrf(env, request)

\* C6: for a method other than GET, HEAD and OPTIONS, with protection on,
\* validateCsrf is true iff the clawsuite-csrf cookie and the x-csrf-token header
\* are both present, both non-empty and equal in length and content.
C6_CsrfIffEqualPair ==
    (/\ response.fn = "validateCsrf"
     /\ ~SafeMethod(request.method)
     /\ isPasswordProtectionEnabled(env))
    => LET cookieToken == getCsrfTokenFromCookie(request.cookie)
           headerToken == request.csrfHeader
       IN response.ret =
            (/\ cookieToken # NULL
             /\ headerToken # NULL
             /\ Len(cookieToken) > 0
             /\ Len(headerToken) > 0
             /\ cookieToken = headerToken)

\* a POST whose cookie and header have the same length and differ was refused
C6_Witness ==
    /\ response.fn = "validateCsrf"
    /\ request.method = POST
    /\ isPasswordProtectionEnabled(env)
    /\ getCsrfTokenFromCookie(request.cookie) = <<"b">>
    /\ request.csrfHeader = <<"a">>
    /\ response.ret = FALSE

----------------------------------------------------------------------------
(* Login, then requests of the logged-in client.  The login route is outside
   auth-middleware.ts: it verifies the submitted password and, on success,
   stores a fresh session token and hands the client the session cookie and
   the CSRF cookie. *)

\* configurations under which a login can succeed: the plaintext secret 'a',
\* and the hash descriptor of the password 'a'
LoginEnvs ==
    {Env(<<"a">>, UNDEFINED), Env(UNDEFINED, <<"s", ":", "1", ":">> \o KeyHex(<<"a">>, <<"s">>, 1))}
\* the passwords submitted, and the CSRF token value generated
LoginPasswords == {<<"a">>, <<"b">>}
CsrfTokens == {<<"a">>}

InitLogin ==
    /\ SessionInit
    /\ now = 0
    /\ env \in LoginEnvs
    /\ AuthIdle
    /\ FlowIdle
    /\ pwCall = NoPwCall
    /\ RateInit

Login(password, token, csrf) ==
    LET ok == verifyPassword(env, password).ret
    IN /\ request = NoRequest
       /\ validTokens' = IF ok THEN storeSessionToken(validTokens, now, token) ELSE validTokens
       /\ issued' = IF ok THEN [token |-> token, csrf |-> csrf] ELSE issued
       /\ UNCHANGED <<lastCall, storedAt, dead, everDead, fillLog, now, env, helperCall,
                      shadow, authVars, pwCall, rateVars>>

\* the requests of a client, which may send a CSRF header the server never issued
LoginRequests ==
    Requests \cup [method : Methods, cookie : CookieHeaders, csrfHeader : {<<"b">>}]

NextLogin ==
    \/ \E password \in LoginPasswords, token \in LoginTokens, csrf \in CsrfTokens :
          Login(password, token, csrf)
    \/ \E token \in LoginTokens : AuthRevoke(token)
    \/ AuthTick
    \/ \E req \in LoginRequests : RequireAuth(req)
    \/ HandlerReturns

SpecLogin == InitLogin /\ [][NextLogin]_vars

----------------------------------------------------------------------------
(* The client address used as rate-limit key: getClientIp *)

\* String.prototype.trim
Trim(s) ==
    LET inked == {i \in 1..Len(s) : s[i] \notin WhiteSpace}
    IN IF inked = {} THEN <<>>
       ELSE SubSeq(s, CHOOSE i \in inked : \A j \in inked : i <= j,
                      CHOOSE i \in inked : \A j \in inked : i >= j)

\* String.prototype.split(',')[0]
SplitCommaFirst(s) ==
    LET commas == {i \in 1..Len(s) : s[i] = ","}
    IN IF commas = {} THEN s
       ELSE SubSeq(s, 1, (CHOOSE i \in commas : \A j \in commas : i <= j) - 1)

\* the literal 'local'
LocalIp == <<"l", "o", "c", "a", "l">>

\* getClientIp that tests TRUSTED_PROXY_IP as it is set (no trim)
getClientIp_NoTrim(e, xRealIp, xForwardedFor) ==
    IF TruthyString(e.TRUSTED_PROXY_IP)
    THEN IF TruthyString(xRealIp) THEN Trim(xRealIp)
         ELSE IF TruthyString(xForwardedFor) THEN Trim(SplitCommaFirst(xForwardedFor))
         ELSE LocalIp
    ELSE LocalIp

\* getClientIp, on the values of the request's x-real-ip and x-forwarded-for
\* headers (NULL when the header is absent)
getClientIp(e, xRealIp, xForwardedFor) ==
    LET trustedProxy == IF e.TRUSTED_PROXY_IP = UNDEFINED THEN UNDEFINED
                        ELSE Trim(e.TRUSTED_PROXY_IP)
    IN IF TruthyString(trustedProxy)
       THEN IF TruthyString(xRealIp) THEN Trim(xRealIp)
            ELSE IF TruthyString(xForwardedFor) THEN Trim(SplitCommaFirst(xForwardedFor))
            ELSE LocalIp
       ELSE LocalIp

\* TRUSTED_PROXY_IP: unset, '', ' ', a tab, 'p', ' p '
ProxyConfigs == {UNDEFINED, <<>>, <<" ">>, <<"\t">>, <<"p">>, <<" ", "p", " ">>}
\* x-real-ip: absent, '', ' ', '1', ' 1 '
RealIpValues == {NULL, <<>>, <<" ">>, <<"1">>, <<" ", "1", " ">>}
\* x-forwarded-for: absent, '', '2', '2,3', ' 2 ,3', ',3'
ForwardedValues ==
    {NULL, <<>>, <<"2">>, <<"2", ",", "3">>, <<" ", "2", " ", ",", "3">>, <<",", "3">>}

InitClientIp ==
    /\ SessionInit
    /\ now = 0
    /\ env \in {[Env(<<"a">>, UNDEFINED) EXCEPT !.TRUSTED_PROXY_IP = p] : p \in ProxyConfigs}
    /\ AuthIdle
    /\ FlowIdle
    /\ pwCall = NoPwCall
    /\ RateInit

GetClientIp(xRealIp, xForwardedFor) ==
    /\ helperCall' = [fn |-> "getClientIp", xRealIp |-> xRealIp,
                      xForwardedFor |-> xForwardedFor,
                      ret |-> getClientIp(env, xRealIp, xForwardedFor)]
    /\ UNCHANGED <<sessionVars, now, env, issued, shadow, authVars, pwCall, rateVars>>

NextClientIp ==
    \E xRealIp \in RealIpValues, xForwardedFor \in ForwardedValues :
        GetClientIp(xRealIp, xForwardedFor)

SpecClientIp == InitClientIp /\ [][NextClientIp]_vars

\* the string is empty or nothing but white space
Blank(s) == \A i \in 1..Len(s) : s[i] \in WhiteSpace
NoTrustedProxy(e) == e.TRUSTED_PROXY_IP = UNDEFINED \/ Blank(e.TRUSTED_PROXY_IP)

\* C19: while TRUSTED_PROXY_IP is unset or blank, getClientIp returns 'local'
\* for every request, so that two requests that differ only in their
\* x-real-ip and x-forwarded-for headers get the same rate-limit key.
C19_UntrustedHeadersIgnored ==
    NoTrustedProxy(env) =>
        /\ helperCall.fn = "getClientIp" => helperCall.ret = LocalIp
        /\ \A r1, r2 \in RealIpValues, f1, f2 \in ForwardedValues :
              getClientIp(env, r1, f1) = getClientIp(env, r2, f2)

\* with TRUSTED_PROXY_IP = ' ' a request carrying both headers got 'local'
C19_Witness ==
    /\ env.TRUSTED_PROXY_IP = <<" ">>
    /\ helperCall.fn = "getClientIp"
    /\ helperCall.xRealIp = <<"1">>
    /\ helperCall.xForwardedFor = <<"2", ",", "3">>
    /\ helperCall.ret = LocalIp

----------------------------------------------------------------------------
(* The Set-Cookie headers: createSessionCookie and createCsrfCookie.  A header
   is a string whose characters are the separators ';', ' ' and '=', the
   characters of the token, and one element per attribute word. *)

\* ' Secure;' when NODE_ENV === 'production', else ''
SecureAttribute(e) ==
    IF e.NODE_ENV = <<"production">> THEN <<" ", "Secure", ";">> ELSE <<>>

\* the template literal ${30 * 24 * 60 * 60}
MaxAgeSeconds == ToString(30 * 24 * 60 * 60)

\* createCsrfCookie that sets the attributes of the session cookie
createCsrfCookie_HttpOnly(e, token) ==
    <<CSRF_COOKIE_NAME, "=">> \o token
    \o <<";", " ", "HttpOnly", ";", " ", "SameSite", "=", "Strict", ";", " ", "Path", "=", "/", ";">>
    \o SecureAttribute(e) \o <<" ", "Max-Age", "=", MaxAgeSeconds>>

createCsrfCookie(e, token) ==
    <<CSRF_COOKIE_NAME, "=">> \o token
    \o <<";", " ", "SameSite", "=", "Strict", ";", " ", "Path", "=", "/", ";">>
    \o SecureAttribute(e) \o <<" ", "Max-Age", "=", MaxAgeSeconds>>

createSessionCookie(e, token) ==
    <<AUTH_COOKIE_NAME, "=">> \o token
    \o <<";", " ", "HttpOnly", ";", " ", "SameSite", "=", "Strict", ";", " ", "Path", "=", "/", ";">>
    \o SecureAttribute(e) \o <<" ", "Max-Age", "=", MaxAgeSeconds>>

\* NODE_ENV: unset, '', 'production', 'Production', 'development'
NodeEnvs == {UNDEFINED, <<>>, <<"production">>, <<"Production">>, <<"development">>}
\* token values: '' and the strings over 'a', 'b' of up to three characters
CookieTokens ==
    {<<>>} \cup UNION {[1..n -> {"a", "b"}] : n \in 1..3}

InitCookie ==
    /\ SessionInit
    /\ now = 0
    /\ env \in {[Env(<<"a">>, UNDEFINED) EXCEPT !.NODE_ENV = n] : n \in NodeEnvs}
    /\ AuthIdle
    /\ FlowIdle
    /\ pwCall = NoPwCall
    /\ RateInit

CreateSessionCookie(token) ==
    /\ helperCall' = [fn |-> "createSessionCookie", token |-> token,
                      ret |-> createSessionCookie(env, token)]
    /\ UNCHANGED <<sessionVars, now, env, issued, shadow, authVars, pwCall, rateVars>>

CreateCsrfCookie(token) ==
    /\ helperCall' = [fn |-> "createCsrfCookie", token |-> token,
                      ret |-> createCsrfCookie(env, token)]
    /\ UNCHANGED <<sessionVars, now, env, issued, shadow, authVars, pwCall, rateVars>>

NextCookie ==
    \/ \E token \in CookieTokens : CreateSessionCookie(token)
    \/ \E token \in CookieTokens : CreateCsrfCookie(token)

SpecCookie == InitCookie /\ [][NextCookie]_vars

\* the attributes of a Set-Cookie header: the parts after the first ';',
\* each without the white space around it
Attributes(cookie) ==
    LET semis == {i \in 1..Len(cookie) : cookie[i] = ";"}
        ends == semis \cup {Len(cookie) + 1}
        next(a) == CHOOSE b \in ends : b > a /\ \A c \in ends : c > a => b <= c
    IN {Trim(SubSeq(cookie, a + 1, next(a) - 1)) : a \in semis}

\* C22: the header built by createSessionCookie always carries HttpOnly and
\* the header built by createCsrfCookie never does; both always carry
\* SameSite=Strict, Path=/ and Max-Age=2592000 (30 days), and both carry
\* Secure exactly when NODE_ENV is 'production'.
C22_CookieAttributes ==
    helperCall.fn \in {"createSessionCookie", "createCsrfCookie"} =>
        LET attrs == Attributes(helperCall.ret)
        IN /\ (<<"HttpOnly">> \in attrs) <=> (helperCall.fn = "createSessionCookie")
           /\ <<"SameSite", "=", "Strict">> \in attrs
           /\ <<"Path", "=", "/">> \in attrs
           /\ <<"Max-Age", "=", "2592000">> \in attrs
           /\ (<<"Secure">> \in attrs) <=> (env.NODE_ENV = <<"production">>)

\* a CSRF cookie was built in production: Secure, and no HttpOnly
C22_Witness ==
    /\ helperCall.fn = "createCsrfCookie"
    /\ env.NODE_ENV = <<"production">>
    /\ helperCall.token = <<"a", "b">>
    /\ <<"Secure">> \in Attributes(helperCall.ret)
    /\ <<"HttpOnly">> \notin Attributes(helperCall.ret)

----------------------------------------------------------------------------
(* Removal of expired sessions *)

\* C11: every session token that is in the store past its expiry time is
\* eventually deleted from the store, also when isValidSessionToken is never
\* called on it again and no further token is stored.
C11_ExpiredEventuallySwept ==
    \A t \in Tokens :
        (MapHas(validTokens, t) /\ now > MapGet(validTokens, t)) ~> ~MapHas(validTokens, t)

----------------------------------------------------------------------------
(* The sliding window of the rate limiter *)

\* the calls of the last rateLimit call's key that returned true before it
EarlierGrants ==
    LET g == grants[rlCall.key]
    IN IF rlCall.ret THEN SubSeq(g, 1, Len(g) - 1) ELSE g

\* C12: for a key that starts with no entry and is always called with one
\* maxRequests = m >= 1 and one windowMs = w, the first m calls return true,
\* a further call made while those m allowed calls are all still inside the
\* window returns false, and a call made when the window has fully elapsed
\* since the allowed calls returns true again.
C12_WindowSequence ==
    (rlCall.op = "rateLimit" /\ paramsOf[rlCall.key][3] = "fixed") =>
        LET m == rlCall.maxRequests
            w == rlCall.windowMs
            earlier == EarlierGrants
        IN /\ Len(earlier) < m => rlCall.ret = TRUE
           /\ (Len(earlier) >= m /\ \A i \in 1..m : now - earlier[i] < w)
                  => rlCall.ret = FALSE
           /\ (Len(earlier) >= m /\ \A i \in 1..Len(earlier) : now - earlier[i] >= w)
                  => rlCall.ret = TRUE

\* C13: right after any rateLimit(key, m, w) call made at time now, whether it
\* returned true or false, every timestamp the store retains for that key is
\* inside the window of that call: now - t < w.
C13_RetainedInsideWindow ==
    rlCall.op = "rateLimit" =>
        /\ rlCall.key \in DOMAIN store
        /\ \A i \in 1..Len(store[rlCall.key]) : now - store[rlCall.key][i] < rlCall.windowMs

\* a call that pruned an older granted call of its key and kept a younger timestamp
C13_Witness ==
    /\ rlCall.op = "rateLimit"
    /\ \E i \in 1..Len(EarlierGrants) : now - EarlierGrants[i] >= rlCall.windowMs
    /\ \E i \in 1..Len(store[rlCall.key]) : store[rlCall.key][i] < now

----------------------------------------------------------------------------
(* The cleanup timer of the rate limiter *)

\* C14: a key of the rate limiter's store that receives no further rateLimit
\* call is eventually deleted by the periodic sweep, and a sweep deletes a key
\* exactly when no timestamp of the key is left after its pruning.
C14_IdleKeyEventuallyDeleted ==
    /\ \A k \in Keys :
          (k \in DOMAIN store) ~>
              (k \notin DOMAIN store \/ (rlCall.op = "rateLimit" /\ rlCall.key = k))
    /\ [][rlCall'.op = "sweep" =>
            \A k \in DOMAIN store :
                (k \notin DOMAIN store') <=> (Younger(store[k], now, SWEEP_CUTOFF_MS) = <<>>)]_vars

\* after the callers stopped, a sweep has deleted an idle key
C14_Witness ==
    /\ rlCall.op = "sweep"
    /\ now > MaxRateTime
    /\ rlCall.deleted # {}
    /\ DOMAIN store = {}

----------------------------------------------------------------------------
(* Requests that need no CSRF token *)

\* the spellings, among the methods of the model, of GET, HEAD and OPTIONS
SafeSpellings ==
    { GET, <<"g", "e", "t">>, HEAD, <<"h", "e", "a", "d">>, OPTIONS,
      <<"o", "p", "t", "i", "o", "n", "s">> }
NonEmptyString(s) == s # UNDEFINED /\ s # <<>>
ProtectionConfigured(e) ==
    NonEmptyString(e.CLAWSUITE_PASSWORD) \/ NonEmptyString(e.CLAWSUITE_PASSWORD_HASH)

\* C15: validateCsrf returns true, whatever the CSRF cookie and the CSRF header
\* are, for every GET, HEAD and OPTIONS request (the method compared without
\* regard to case), and for every request of any method while neither a
\* non-empty plaintext secret nor a non-empty hash descriptor is configured.
C15_SafeOrUnprotectedPassesCsrf ==
    (/\ response.fn = "validateCsrf"
     /\ (request.method \in SafeSpellings \/ ~ProtectionConfigured(env)))
        => response.ret = TRUE

\* a lower-case OPTIONS request with differing cookie and header tokens passes
\* under password protection
C15_Witness ==
    /\ response.fn = "validateCsrf"
    /\ request.method = <<"o", "p", "t", "i", "o", "n", "s">>
    /\ ProtectionConfigured(env)
    /\ getCsrfTokenFromCookie(request.cookie) = <<"b">>
    /\ request.csrfHeader = <<"a">>
    /\ response.ret = TRUE

----------------------------------------------------------------------------
(* The two verification paths of verifyPassword *)

HashConfigured(e) == NonEmptyString(e.CLAWSUITE_PASSWORD_HASH)
PlaintextConfiguredOnly(e) == NonEmptyString(e.CLAWSUITE_PASSWORD) /\ ~HashConfigured(e)

\* C16: with a plaintext secret and no hash descriptor configured,
\* verifyPassword(candidate) returns true exactly when the candidate equals
\* the configured secret.
C16_PlaintextIffEqual ==
    (pwCall # NoPwCall /\ PlaintextConfiguredOnly(env)) =>
        (pwCall.ret = TRUE <=> pwCall.password = env.CLAWSUITE_PASSWORD)

\* a candidate as long as the secret 'ab' but different from it was rejected
C16_Witness ==
    /\ PlaintextConfiguredOnly(env)
    /\ env.CLAWSUITE_PASSWORD = <<"a", "b">>
    /\ pwCall.password = <<"b", "a">>
    /\ pwCall.ret = FALSE

\* C17: with a hash descriptor that has no ':' and no plaintext secret,
\* verifyPassword returns false for every candidate and does not raise,
\* although isPasswordProtectionEnabled is true.
C17_MalformedHashLocksOut ==
    (/\ pwCall # NoPwCall
     /\ HashConfigured(env)
     /\ ~IncludesColon(env.CLAWSUITE_PASSWORD_HASH)
     /\ ~NonEmptyString(env.CLAWSUITE_PASSWORD))
        => (pwCall.ret = FALSE /\ pwCall.threw = FALSE /\ isPasswordProtectionEnabled(env))

\* the empty candidate was tried against the descriptor 'x' with the secret unset
C17_Witness ==
    /\ env.CLAWSUITE_PASSWORD_HASH = <<"x">>
    /\ env.CLAWSUITE_PASSWORD = UNDEFINED
    /\ pwCall.password = <<>>
    /\ pwCall.ret = FALSE

\* the result of comparing the derived key with the hash of the descriptor;
\* a descriptor that cannot be compared matches nothing
HashMatches(hashedConfig, password) ==
    /\ IncludesColon(hashedConfig)
    /\ ~HashAttempt(hashedConfig, password).threw
    /\ HashAttempt(hashedConfig, password).ret

\* C18: one path decides verifyPassword: with a hash descriptor configured the
\* result is the comparison of the derived key with the stored hash and the
\* plaintext secret is not consulted; the plaintext comparison decides only
\* when no hash descriptor is configured.
C18_OnePathDecides ==
    pwCall # NoPwCall =>
        IF HashConfigured(env)
        THEN pwCall.ret = HashMatches(env.CLAWSUITE_PASSWORD_HASH, pwCall.password)
        ELSE pwCall.ret = (/\ NonEmptyString(env.CLAWSUITE_PASSWORD)
                           /\ pwCall.password = env.CLAWSUITE_PASSWORD)

----------------------------------------------------------------------------
(* The logged-in client and the CSRF header *)

\* the request carries the cookies of the last login, and that session is alive
CarriesLiveLogin(req) ==
    /\ issued # NoLogin
    /\ MapHas(validTokens, issued.token)
    /\ now <= MapGet(validTokens, issued.token)
    /\ getSessionTokenFromCookie(req.cookie) = issued.token
    /\ getCsrfTokenFromCookie(req.cookie) = issued.csrf

\* C20: after a successful login, requireAuth answers 403 to a mutating
\* request that carries the session cookie and the CSRF cookie but no CSRF
\* header, that request changes neither the session store nor the issued
\* tokens, and the same request repeated with the CSRF header equal to the
\* CSRF cookie is answered null.
C20_LoginThenCsrfHeaderDecides ==
    [][(/\ request = NoRequest
        /\ response'.fn = "requireAuth"
        /\ request'.method \notin SafeSpellings
        /\ request'.csrfHeader = NULL
        /\ CarriesLiveLogin(request'))
       => /\ response'.status = 403
          /\ validTokens' = validTokens
          /\ issued' = issued
          /\ requireAuth(env, validTokens', now',
                         [request' EXCEPT !.csrfHeader = issued.csrf]).status = 0]_vars

\* under the hash configuration, the logged-in client's POST without the
\* CSRF header was answered 403
C20_Witness ==
    /\ env.CLAWSUITE_PASSWORD_HASH # UNDEFINED
    /\ response.fn = "requireAuth"
    /\ response.status = 403
    /\ request.method = POST
    /\ request.csrfHeader = NULL
    /\ CarriesLiveLogin(request)

\* the request carries a session token that is in the store and not expired
CarriesLiveSession(req) ==
    LET token == getSessionTokenFromCookie(req.cookie)
    IN /\ token # NULL
       /\ MapHas(validTokens, token)
       /\ now <= MapGet(validTokens, token)

\* C21: with password protection on, requireAuth accepts (answers null to) a
\* mutating request that carries a valid session token and a CSRF cookie and
\* CSRF header that are non-empty and equal to each other, whatever that value
\* is: it is compared neither with the session token nor with a CSRF token
\* the server issued.
C21_AnyEqualPairAccepted ==
    (/\ response.fn = "requireAuth"
     /\ ProtectionConfigured(env)
     /\ request.method \notin SafeSpellings
     /\ CarriesLiveSession(request)
     /\ NonEmptyString(getCsrfTokenFromCookie(request.cookie))
     /\ getCsrfTokenFromCookie(request.cookie) # NULL
     /\ request.csrfHeader = getCsrfTokenFromCookie(request.cookie))
        => response.status = 0

\* a POST with the pair 'b' was accepted although the login issued the CSRF
\* token 'a' and the session token is 'a'
C21_Witness ==
    /\ response.fn = "requireAuth"
    /\ response.status = 0
    /\ request.method = POST
    /\ CarriesLiveSession(request)
    /\ getSessionTokenFromCookie(request.cookie) = <<"a">>
    /\ issued.csrf = <<"a">>
    /\ getCsrfTokenFromCookie(request.cookie) = <<"b">>
    /\ request.csrfHeader = <<"b">>

----------------------------------------------------------------------------
(* What one rateLimit call keeps, counts and records *)

\* the timestamps of the key before the call (none when the key has no entry)
EntryOf(st, key) == IF key \in DOMAIN st THEN st[key] ELSE <<>>
Has(timestamps, t) == \E i \in 1..Len(timestamps) : timestamps[i] = t

\* C23 as stated: rateLimit keeps a timestamp recorded exactly windowMs before
\* the call, and that timestamp counts toward maxRequests for the call.
C23_BoundaryKept ==
    [][rlCall'.op = "rateLimit" =>
        LET old == EntryOf(store, rlCall'.key)
            w == rlCall'.windowMs
        IN /\ \A i \in 1..Len(old) :
                 now - old[i] = w => Has(store'[rlCall'.key], old[i])
           /\ rlCall'.ret =
                 (Len(SelectSeq(old, LAMBDA t : now - t <= w)) < rlCall'.maxRequests)]_vars

\* C23, amended: rateLimit prunes every timestamp that is windowMs old or
\* older: a timestamp recorded exactly windowMs before the call is dropped and
\* does not count toward maxRequests for the call; only younger ones do.
C23_BoundaryPruned ==
    [][rlCall'.op = "rateLimit" =>
        LET old == EntryOf(store, rlCall'.key)
            w == rlCall'.windowMs
        IN /\ \A i \in 1..Len(old) :
                 (now - old[i] < w) <=> Has(store'[rlCall'.key], old[i])
           /\ rlCall'.ret =
                 (Len(SelectSeq(old, LAMBDA t : now - t < w)) < rlCall'.maxRequests)]_vars

\* a call was granted under maxRequests = 1 exactly windowMs after the only
\* granted call before it, whose timestamp is gone
C23_Witness ==
    /\ rlCall.op = "rateLimit"
    /\ rlCall.maxRequests = 1
    /\ paramsOf[rlCall.key][3] = "fixed"
    /\ rlCall.ret = TRUE
    /\ EarlierGrants = <<now - rlCall.windowMs>>
    /\ store[rlCall.key] = <<now>>

\* C24: a rateLimit call that returns false records nothing: afterwards the
\* key's timestamps are the pruned timestamps from before the call, with no
\* entry for the rejected call, so that the rejection does not postpone the
\* time at which the key is allowed again.
C24_RejectedRecordsNothing ==
    [][(rlCall'.op = "rateLimit" /\ rlCall'.ret = FALSE) =>
        LET k == rlCall'.key
            pruned == Younger(EntryOf(store, k), now, rlCall'.windowMs)
        IN /\ store'[k] = pruned
           /\ \A later \in now..LastSweepTime :
                 rateLimit(store', later, k, rlCall'.maxRequests, rlCall'.windowMs).ret
                   = rateLimit(store, later, k, rlCall'.maxRequests, rlCall'.windowMs).ret]_vars

\* a call was rejected at a time later than every timestamp of its key
C24_Witness ==
    /\ rlCall.op = "rateLimit"
    /\ rlCall.ret = FALSE
    /\ rlCall.maxRequests = 2
    /\ Len(store[rlCall.key]) = 2
    /\ \A i \in 1..2 : store[rlCall.key][i] < now

\* C27: a rateLimit call for one key neither reads nor changes the timestamps
\* of any other key: the other keys' entries are as before the call, and the
\* call returns what it returns on a store that holds its own key alone.
C27_KeysIsolated ==
    [][rlCall'.op = "rateLimit" =>
        LET k == rlCall'.key
            alone == [x \in DOMAIN store \cap {k} |-> store[x]]
        IN /\ \A other \in Keys \ {k} :
                 /\ (other \in DOMAIN store') <=> (other \in DOMAIN store)
                 /\ other \in DOMAIN store => store'[other] = store[other]
           /\ rlCall'.ret = rateLimit(alone, now, k, rlCall'.maxRequests, rlCall'.windowMs).ret
           /\ store'[k] = rateLimit(alone, now, k, rlCall'.maxRequests, rlCall'.windowMs).store[k]]_vars

\* a call for k1 was rejected while k2 holds a timestamp that k1's window
\* would have pruned
C27_Witness ==
    /\ rlCall.op = "rateLimit"
    /\ rlCall.key = "k1"
    /\ rlCall.ret = FALSE
    /\ "k2" \in DOMAIN store
    /\ \E i \in 1..Len(store["k2"]) : now - store["k2"][i] >= rlCall.windowMs

----------------------------------------------------------------------------
(* Order of the session store *)

\* C25: eviction is first-in-first-out, not least-recently-used:
\* isValidSessionToken on a token that is not expired leaves the store as it
\* is (entries, expiries, insertion order), and when a new token is stored at
\* capacity right after the earliest-inserted token was validated, that
\* earliest-inserted token is the one evicted.
C25_FifoNotLru ==
    [][/\ (lastCall'.op = "isValid" /\ lastCall'.ret = TRUE) => validTokens' = validTokens
       /\ (/\ lastCall.op = "isValid"
            /\ lastCall.ret = TRUE
            /\ Len(validTokens) >= MAX_SESSIONS
            /\ lastCall.token = validTokens[1].token
            /\ lastCall'.op = "store"
            /\ ~lastCall'.present)
           => validTokens' = Append(Tail(validTokens),
                                    [token |-> lastCall'.token,
                                     expiresAt |-> now + SESSION_TTL_MS])]_vars

\* the entries are in non-decreasing order of expiry
SortedByExpiry(tokens) ==
    \A i, j \in 1..Len(tokens) : i < j => tokens[i].expiresAt <= tokens[j].expiresAt

\* storeSessionToken, called on this store, deletes the earliest-inserted
\* entry: the store is full and its first key is not ''
EvictsOldest(tokens) ==
    Len(tokens) >= LARGER_MAX_SESSIONS /\ TruthyString(MapFirstKey(tokens))

\* the keys of the store, in insertion order
KeysOf(tokens) == [i \in 1..Len(tokens) |-> tokens[i].token]

\* the entries of `after` are those of `before`, at the same places, but for
\* the expiry of the entry of `token`, which is `expiresAt`
RenewedInPlace(before, after, token, expiresAt) ==
    /\ KeysOf(after) = KeysOf(before)
    /\ \A i \in 1..Len(before) :
          after[i].expiresAt = IF before[i].token = token THEN expiresAt
                               ELSE before[i].expiresAt

\* C28 as stated: in every reachable state the earliest-inserted entry has the
\* smallest expiry of all stored entries.
C28_FirstExpiresFirst ==
    \A i \in 1..Len(validTokens) : validTokens[1].expiresAt <= validTokens[i].expiresAt

\* C28, amended: (1) every step other than storing a token value that is in
\* the store keeps the entries in non-decreasing order of expiry; (2) while
\* they are in that order, an entry that storeSessionToken removes has the
\* smallest expiry of all stored entries; (3) storing a value that is in the
\* store sets its expiry to now + TTL, and the value keeps its place among the
\* entries that stay, every other entry keeping its expiry, unless the store
\* is full and the value is its non-empty earliest-inserted entry: that entry
\* is evicted and appended again as the last one.
C28_InsertionOrderAndRenewal ==
    [][/\ (SortedByExpiry(validTokens) /\ ~(lastCall'.op = "store" /\ lastCall'.present))
           => SortedByExpiry(validTokens')
       /\ (SortedByExpiry(validTokens) /\ lastCall'.op = "store")
           => \A t \in MoreTokens :
                  (MapHas(validTokens, t) /\ ~MapHas(validTokens', t)) =>
                      \A i \in 1..Len(validTokens) :
                          MapGet(validTokens, t) <= validTokens[i].expiresAt
       /\ (lastCall'.op = "store" /\ lastCall'.present)
           => IF EvictsOldest(validTokens) /\ validTokens[1].token = lastCall'.token
              THEN validTokens' = Append(Tail(validTokens),
                                         [token |-> lastCall'.token,
                                          expiresAt |-> now + SESSION_TTL_MS])
              ELSE RenewedInPlace(IF EvictsOldest(validTokens) THEN Tail(validTokens)
                                  ELSE validTokens,
                                  validTokens', lastCall'.token, now + SESSION_TTL_MS)]_vars

\* a non-empty value that headed a store below capacity was stored again:
\* it is still the earliest-inserted entry and now expires later than the
\* entry inserted after it ('' is not in the store)
C28_Witness ==
    /\ lastCall.op = "store"
    /\ lastCall.present
    /\ lastCall.token # <<>>
    /\ ~MapHas(validTokens, <<>>)
    /\ Len(validTokens) = LARGER_MAX_SESSIONS - 1
    /\ validTokens[1].token = lastCall.token
    /\ validTokens[1].expiresAt = now + SESSION_TTL_MS
    /\ validTokens[1].expiresAt > validTokens[2].expiresAt

----------------------------------------------------------------------------
(* The sweep and the callers *)

\* C26: for callers whose windowMs is at most 120000, cleanup sweeps run at any
\* points between the rateLimit calls change the result of no later call:
\* every call returns what it returns when no sweep is ever run.
C26_SweepInvisible ==
    rlCall.op = "rateLimit" => rlCall.ret = shadow.ret

\* a call was rejected after a sweep had deleted a key that is still there
\* when no sweep is run
C26_Witness ==
    /\ rlCall.op = "rateLimit"
    /\ rlCall.ret = FALSE
    /\ \E k \in DOMAIN shadow.store : k \notin DOMAIN store

\* C29: for a key that is always checked with one maxRequests = m, the
\* retained timestamps are never more than max(m, 0) and are in non-decreasing
\* order; with m <= 0 every rateLimit call returns false and records nothing.
C29_AtMostMaxRetained ==
    /\ \A k \in DOMAIN store :
          LET m == paramsOf[k][1]
          IN /\ Len(store[k]) <= (IF m > 0 THEN m ELSE 0)
             /\ \A i, j \in 1..Len(store[k]) : i < j => store[k][i] <= store[k][j]
    /\ (rlCall.op = "rateLimit" /\ rlCall.maxRequests <= 0) =>
          (rlCall.ret = FALSE /\ store[rlCall.key] = <<>>)

\* k1, limited to 2, holds two timestamps of different times, and a call for
\* k2, limited to 0, was just rejected
C29_Witness ==
    /\ rlCall.op = "rateLimit"
    /\ rlCall.key = "k2"
    /\ rlCall.maxRequests = 0
    /\ rlCall.ret = FALSE
    /\ paramsOf["k1"][1] = 2
    /\ "k1" \in DOMAIN store
    /\ Len(store["k1"]) = 2
    /\ store["k1"][1] < store["k1"][2]

====
